---- MODULE Spec2Model ----
(***************************************************************************)
(* wallaby: an append-only write-ahead log with a companion index file.    *)
(*                                                                         *)
(* The repository holds two generations of the engine.  Both are modelled  *)
(* here, byte for byte, over one set of variables:                         *)
(*                                                                         *)
(*   Spec     package wallaby: versionOneLogFile (src/log.go), its index   *)
(*            (src/log_index.go) and its cursor (src/cursor.go).           *)
(*   SpecWal  package v1: wal (src/v1/log.go) and its index                *)
(*            (src/v1/index.go), written through the m3 writers.           *)
(*                                                                         *)
(* Files are sequences of bytes.  The xxhash digest is represented by the  *)
(* sequence of bytes fed to it, so two digests are equal exactly when the  *)
(* inputs are.                                                             *)
(***************************************************************************)
EXTENDS Integers, Sequences, FiniteSets, TLC

(***************************************************************************)
(* Bounds of the exploration.                                              *)
(***************************************************************************)
\* config.MaxRecordSize of the modelled logs (0xffff by default).
MaxRecordSize == 24
\* Number of Write calls explored on a log (on a v1 log: over all sessions).
MaxWrites == 4
\* MaximumIndexSlice, 32000 in the source, scaled down so that a log of
\* MaxWrites records spans more than one slice.
MaximumIndexSlice == 3
\* Capacity of the index files' buffered writers, counted in index records
\* (2048 in src/log_index.go, 8192 in src/v1/index.go).
IndexBufferRecords == 2
\* time.Now().UnixNano() returns a value in 1..MaxClock.
MaxClock == 2
\* Number of times the v1 log is closed and created again on its file pair.
MaxSessions == 2
\* Number of bytes written to the file behind a SyncOnWrite writer.
MaxSyncBytes == 4

(***************************************************************************)
(* Constants of the source.                                                *)
(***************************************************************************)
UNOPENED == 0
OPEN == 1
CLOSED == 2
LogHeaderSize == 8
VersionOneIndexHeaderSize == 8
VersionOneIndexRecordSize == 32
VersionOneLogRecordHeaderSize == 24
DefaultRecordFlags == 0
V1IndexHeaderSize == 16
V1IndexRecordSize == 24
V1LogHeaderSize == 16
V1LogRecordHeaderSize == 16
\* v1.Create passes 64*1024 to NewLogRecordEncoder whatever the config says:
\* one more than the default config.MaxRecordSize, 0xffff.
V1EncoderMaxSize == MaxRecordSize + 1
VersionOne == 1

Nil == "nil"
ErrLogAlreadyOpen == "ErrLogAlreadyOpen"
ErrLogClosed == "ErrLogClosed"
ErrRecordTooLarge == "ErrRecordTooLarge"
ErrSliceOutOfBounds == "ErrSliceOutOfBounds"
ErrReadIndex == "ErrReadIndex"
ErrReadLogRecord == "ErrReadLogRecord"
ErrInvalidRecordSize == "ErrInvalidRecordSize"
ErrUnsafeOperation == "ErrUnsafeOperation"
\* os.ErrClosed / EBADF: an operation on a closed *os.File.
ErrFileClosed == "ErrFileClosed"
\* any error of the operating system on a write (disk full, EIO ...).
ErrIO == "ErrIO"
\* any error of the operating system on an fsync.
ErrSync == "ErrSync"
ErrInvalidFileSignature == "ErrInvalidFileSignature"
ErrInvalidFileVersion == "ErrInvalidFileVersion"
ErrWriteLogRecord == "ErrWriteLogRecord"

(***************************************************************************)
(* Bytes and the little-endian codec of xbinary.LittleEndian.              *)
(***************************************************************************)
Min(a, b) == IF a < b THEN a ELSE b
Max(a, b) == IF a > b THEN a ELSE b

Zeros(n) == [i \in 1..n |-> 0]

RECURSIVE LE(_, _)
\* PutUint32 / PutInt64 / PutUint64: the w bytes of n, least significant first.
LE(n, w) == IF w = 0 THEN <<>> ELSE <<n % 256>> \o LE(n \div 256, w - 1)

RECURSIVE UintLE(_)
\* Uint32 / Uint64: the number held by a little-endian byte sequence.
UintLE(b) == IF b = <<>> THEN 0 ELSE b[1] + 256 * UintLE(Tail(b))

\* Int32 / Int64: as UintLE, the top bit being the sign.
IntLE(b) ==
  LET w == Len(b)
      top == b[w]
  IN IF top < 128 THEN UintLE(b)
     ELSE UintLE(SubSeq(b, 1, w - 1) \o <<0>>) + (top - 256) * (256 ^ (w - 1))

\* buf[off : off+n], offsets counted from 0.
Bytes(buf, off, n) == SubSeq(buf, off + 1, off + n)

\* xbinary Put*: writes the bytes at offset off, or leaves the buffer alone
\* (and returns an error the callers drop) when they do not fit.
Put(buf, off, bs) ==
  IF off + Len(bs) > Len(buf) THEN buf
  ELSE [i \in 1..Len(buf) |->
          IF i > off /\ i <= off + Len(bs) THEN bs[i - off] ELSE buf[i]]

\* xbinary Int64 at offset off with the callers' "on error use 0".
Int64At(buf, off) == IF off + 8 > Len(buf) THEN 0 ELSE IntLE(Bytes(buf, off, 8))

\* Go's copy(dst, src): min(len(dst), len(src)) bytes are copied.
Copy(dst, src) ==
  [i \in 1..Len(dst) |-> IF i <= Len(src) THEN src[i] ELSE dst[i]]

\* (*os.File).ReadAt(buf of n bytes, off): the bytes read; fewer than n
\* come with io.EOF.
ReadAt(file, off, n) ==
  IF off < 0 \/ off >= Len(file) THEN <<>>
  ELSE Bytes(file, off, Min(n, Len(file) - off))

\* "LOG" / "IDX" as bytes.
LogFileSignature == <<76, 79, 71>>
IndexFileSignature == <<73, 68, 88>>

(***************************************************************************)
(* Inputs.                                                                 *)
(***************************************************************************)
\* A payload of n bytes; the bytes differ from one another and from 0.
Payload(n) == [i \in 1..n |-> 100 + (i % 28)]
PayloadLens == {0, MaxRecordSize, MaxRecordSize + 1}
Payloads == {Payload(n) : n \in PayloadLens}
\* The payloads written to the v1 log.
WalPayloads == {Payload(n) : n \in {0, 8, V1EncoderMaxSize, V1EncoderMaxSize + 1}}
Clock == 1..MaxClock

VARIABLES
  \* versionOneLogFile (src/log.go)
  state, fd, fdPos, fdClosed, size, hash, indexBuffer, lastWriteTime, wrapped,
  \* its index, VersionOneIndexFile (src/log_index.go)
  idxFd, idxWriter, idxSize,
  \* its cursor, versionOneLogCursor (src/cursor.go)
  slice, sliceOffset, position,
  \* history of the run of cursor calls in progress (-1 when the last call
  \* was not a cursor call): the argument of the Seek that began it, and the
  \* index of the record the last call had to return if every call of the run
  \* before it returned a record
  seekBase, expect,
  \* the result of the last call, the payloads of the successful writes,
  \* whether the process died of a run-time panic
  ret, written, calls, panicked,
  \* wal (src/v1/log.go) and its index (src/v1/index.go)
  wLog, wLogSize, wLastWriteTime, wHash, wSafe,
  wIdxFd, wIdxBuf, wIdxSize, wIdxErr, wIdxClosed,
  wRet, wCount, wCalls, wSessions,
  \* the snapshot the last call of wal.Snapshot returned, if no write and no
  \* Create came after it, and whether it was taken after another one
  wSnap,
  \* a file written through m3.SyncOnWrite (m3/file.go): the bytes written
  \* to it, the bytes forced to stable storage, whether it is closed, the
  \* result of the last call and what the operating system did in it
  sFile, sDurable, sClosed, sRet, sFault,
  \* what the last call of VersionOneIndexFile.Slice made on the index
  \* itself returned
  sliceRet,
  \* the bytes Pipe has written to its io.Writer
  sink,
  \* the data file found at the path given to Create (src/wal.go) and what
  \* Create returned
  cFile, cRet,
  \* the record codec of src/log.go used on its own: the record given to
  \* MarshalBinary, the buffer given to UnmarshalBasicLogRecord, the result
  \* of the last call
  kRec, kBuf, kOut,
  \* the last call of IsExpired on an index record: which implementation,
  \* the time and ttl of the record, the current time, the answer
  eRet,
  \* goroutines inside wal.Write on the one v1 log: where each of them is
  \* and its local variables (data, now, size, n, indexRecord)
  tPc, tLoc,
  \* the index of src/cursor.go (mutex, buffer, writer, fd, size), the calls
  \* of Append in progress on it, and the records whose Append returned nil
  aIdx, aCall, aDone,
  \* bufferedWriteCloser of src/unnamed/part_002 (size, offset, buffer, the
  \* bytes its parent received, parent closed), the data of the writes it
  \* accepted, and the result of the last call
  bw, bIn, bRet,
  \* the same for bufferedWriteCloser of src/writers.go (a bufio.Writer)
  qw, qIn, qRet,
  \* a data file holding one record at offset 0, and what the cursor's read
  \* of it returned
  rFile, rRet,
  \* the last call of Get on the slice the index returned: its argument, the
  \* size of the slice and the error
  gRet,
  \* mmapWriter of m3 (file, fileOffset, position, safe), the data of the
  \* writes it accepted, and the result of the last call
  mm, mIn, mRet

logVars == <<state, fd, fdPos, fdClosed, size, hash, indexBuffer, lastWriteTime, wrapped>>
indexVars == <<idxFd, idxWriter, idxSize>>
cursorVars == <<slice, sliceOffset, position>>
historyVars == <<seekBase, expect>>
walVars == <<wLog, wLogSize, wLastWriteTime, wHash, wSafe, wIdxFd, wIdxBuf,
             wIdxSize, wIdxErr, wIdxClosed, wRet, wCount, wCalls, wSessions,
             wSnap>>
ghostVars == <<written, calls>>
syncVars == <<sFile, sDurable, sClosed, sRet, sFault>>
\* Everything but the package wallaby log; everything but the v1 log.
createVars == <<cFile, cRet>>
\* The parts that are used on their own, outside the two logs.
codecVars == <<kRec, kBuf, kOut>>
threadVars == <<tPc, tLoc>>
appendVars == <<aIdx, aCall, aDone>>
bufferedVars == <<bw, bIn, bRet>>
bufioVars == <<qw, qIn, qRet>>
recordVars == <<rFile, rRet>>
mmapVars == <<mm, mIn, mRet>>
auxVars ==
  <<createVars, codecVars, eRet, threadVars, appendVars, bufferedVars, bufioVars,
    recordVars, gRet, mmapVars>>
notLogVars == <<walVars, syncVars, sliceRet, sink, auxVars>>
notWalVars == <<logVars, indexVars, cursorVars, historyVars, ret, ghostVars, panicked, syncVars, sliceRet, sink, auxVars>>
notSyncVars == <<logVars, indexVars, cursorVars, historyVars, ret, ghostVars, panicked, walVars, sliceRet, sink, auxVars>>
coreVars == <<logVars, indexVars, cursorVars, historyVars, ret, ghostVars, panicked, walVars, syncVars, sliceRet, sink>>
vars == <<coreVars, auxVars>>

(***************************************************************************)
(* Results of calls.                                                       *)
(***************************************************************************)
NoRecord == [size |-> 0, flags |-> 0, nanos |-> 0, index |-> 0, data |-> <<>>]
Result(op, arg, err, n, rec) ==
  [op |-> op, arg |-> arg, err |-> err, n |-> n, rec |-> rec]
NoCall == Result("none", 0, Nil, 0, NoRecord)
\* A call that is not a cursor call ends the run of cursor calls.
EndRun == seekBase' = -1 /\ expect' = -1
Panic == "panic"

(***************************************************************************)
(* package wallaby: creation of a new log (src/wal.go).                    *)
(***************************************************************************)
\* createNew: the 8-byte header "LOG", version, flags.
NewLogHeader == LogFileSignature \o <<VersionOne>> \o LE(DefaultRecordFlags, 4)
\* VersionOneIndexFactory on an empty file: "IDX", version, flags.
NewIndexHeader == IndexFileSignature \o <<VersionOne>> \o LE(DefaultRecordFlags, 4)
\* The state Create hands the log out in.
CreatedState == UNOPENED
\* config.TimeToLive of the test configuration.
TimeToLive == 0

InitLog ==
  /\ state = CreatedState
  /\ fd = NewLogHeader
  /\ fdPos = Len(NewLogHeader)
  /\ fdClosed = FALSE
  /\ size = Len(NewLogHeader)
  /\ hash = <<>>
  /\ indexBuffer = Zeros(VersionOneIndexRecordSize)
  /\ lastWriteTime = 0
  /\ wrapped = FALSE
  /\ idxFd = NewIndexHeader
  /\ idxWriter = <<>>
  /\ idxSize = 0
  /\ slice = [nil |-> TRUE, buffer |-> <<>>, size |-> 0]
  /\ sliceOffset = 0
  /\ position = 0
  /\ seekBase = -1
  /\ expect = -1
  /\ ret = NoCall
  /\ written = <<>>
  /\ calls = 0
  /\ panicked = FALSE
  /\ sink = <<>>
  /\ sliceRet = [offset |-> 0, limit |-> 0, err |-> Nil,
                 slice |-> [nil |-> TRUE, buffer |-> <<>>, size |-> 0]]

(***************************************************************************)
(* versionOneLogFile.Open / Close (src/log.go).                            *)
(***************************************************************************)
\* Use: middleware is applied only while the log is UNOPENED.
Use(st, w) == IF st = UNOPENED THEN TRUE ELSE w

\* A variant of Open that never refuses.
OpenErrNever(st) == Nil

\* The error Open returns from state st.
OpenErr(st) == IF st = OPEN THEN ErrLogAlreadyOpen ELSE Nil

\* The state Open leaves the log in.
OpenState(st) == IF st = OPEN THEN st ELSE OPEN

\* io.Copy(v.hash, v.fd): the file from its read position to its end.
CopyToHash(h, file, pos, closed) ==
  IF closed THEN h ELSE h \o SubSeq(file, pos + 1, Len(file))

Open ==
  /\ ~panicked
  /\ wrapped' = Use(state, wrapped)
  /\ state' = OpenState(state)
  /\ ret' = Result("Open", 0, OpenErr(state), 0, NoRecord)
  /\ IF OpenErr(state) = Nil
     THEN /\ hash' = CopyToHash(hash, fd, fdPos, fdClosed)
          /\ fdPos' = IF fdClosed THEN fdPos ELSE Len(fd)
     ELSE UNCHANGED <<hash, fdPos>>
  /\ EndRun
  /\ UNCHANGED <<fd, fdClosed, size, indexBuffer, lastWriteTime>>
  /\ UNCHANGED <<indexVars, cursorVars, ghostVars, panicked, notLogVars>>

\* atomicWriteCloser.Close: Sync, then Close; both fail on a closed file.
AtomicCloseErr(closed) == IF closed THEN ErrFileClosed ELSE Nil

Close ==
  /\ ~panicked
  /\ state' = CLOSED
  /\ fdClosed' = TRUE
  /\ ret' = Result("Close", 0, AtomicCloseErr(fdClosed), 0, NoRecord)
  /\ EndRun
  /\ UNCHANGED <<fd, fdPos, size, hash, indexBuffer, lastWriteTime, wrapped>>
  /\ UNCHANGED <<indexVars, cursorVars, ghostVars, panicked, notLogVars>>

(***************************************************************************)
(* v1LogRecordFactory.Write and versionOneLogFile.Write (src/log.go).      *)
(***************************************************************************)
\* b.index as Write reads it: the factory is built with index 0 and Write has
\* a value receiver, so its b.index++ is lost when it returns.
FactoryIndex == 0

\* The caller's slice after the factory wrote the header fields into it.
FactoryHeader(data, now) ==
  Put(Put(Put(Put(data, 0, LE(Len(data), 4)),
              4, LE(DefaultRecordFlags, 4)),
          8, LE(now, 8)),
      16, LE(FactoryIndex, 8))

\* b.buffer[:len(data)+24] after copy(b.buffer[24:len(data)+24], data):
\* nothing ever writes the first 24 bytes of b.buffer.
FactoryRecord(data, now) ==
  Zeros(VersionOneLogRecordHeaderSize) \o FactoryHeader(data, now)

\* The size check of the factory.
FactoryErr(data, max) == IF Len(data) > max THEN ErrRecordTooLarge ELSE Nil

\* atomicWriteCloser.Write: the error of file.Write.
AtomicWriteErr(closed) == IF closed THEN ErrFileClosed ELSE Nil

\* v.writeCloser.Write(data): [err, n, data (the caller's slice afterwards),
\* out (the bytes appended to the file)].
WriteCloserWrite(data, now) ==
  IF ~wrapped
  THEN [err |-> AtomicWriteErr(fdClosed),
        n |-> IF fdClosed THEN 0 ELSE Len(data), data |-> data,
        out |-> IF fdClosed THEN <<>> ELSE data]
  ELSE IF FactoryErr(data, MaxRecordSize) # Nil
  THEN [err |-> FactoryErr(data, MaxRecordSize), n |-> 0, data |-> data, out |-> <<>>]
  ELSE IF AtomicWriteErr(fdClosed) # Nil
  THEN [err |-> AtomicWriteErr(fdClosed), n |-> 0,
        data |-> FactoryHeader(data, now), out |-> <<>>]
  ELSE [err |-> Nil, n |-> Len(FactoryRecord(data, now)),
        data |-> FactoryHeader(data, now), out |-> FactoryRecord(data, now)]

\* The bytes the log hashes for a write of data.
HashInput(data) == data

\* The index buffer after copy(v.indexBuffer[:16], data[8:]) and the two Puts.
\* off is the value stored as the record's offset.
IndexEntry(buf, data, off) ==
  Put(Put(Copy(SubSeq(buf, 1, 16), SubSeq(data, 9, Len(data))) \o SubSeq(buf, 17, Len(buf)),
          16, LE(off, 8)),
      24, LE(TimeToLive, 8))

\* The offset Write stores in the index entry: v.size, read after
\* v.size += n.
EntryOffset(sizeBefore, n) == sizeBefore + n

\* bufio.Writer.Write of one index record on a writer holding buf: the
\* pending bytes are flushed first when the record does not fit.
BufioWrite(file, buf, rec, cap) ==
  IF Len(buf) + Len(rec) > cap
  THEN [file |-> file \o buf, buf |-> rec]
  ELSE [file |-> file, buf |-> buf \o rec]

IndexBufferSize == IndexBufferRecords * VersionOneIndexRecordSize

\* VersionOneIndexFile.Write (src/log_index.go): the size after the write.
IndexWriteSize(n, err) == IF err # Nil THEN n ELSE n + 1

Write(data) ==
  /\ ~panicked
  /\ calls < MaxWrites
  /\ \E now \in Clock :
       LET w == WriteCloserWrite(data, now)
           e == IndexEntry(indexBuffer, w.data, EntryOffset(size, w.n))
           b == BufioWrite(idxFd, idxWriter, e, IndexBufferSize)
       IN
       IF state # OPEN
       THEN /\ ret' = Result("Write", Len(data), ErrLogClosed, 0, NoRecord)
            /\ UNCHANGED <<logVars, indexVars, ghostVars, panicked>>
       ELSE
         /\ calls' = calls + 1
         /\ hash' = hash \o HashInput(data)
         /\ fd' = fd \o w.out
         /\ fdPos' = IF w.err = Nil THEN Len(fd') ELSE fdPos
         /\ UNCHANGED <<state, fdClosed, wrapped>>
         /\ IF w.err # Nil
            THEN /\ ret' = Result("Write", Len(data), w.err, w.n, NoRecord)
                 /\ UNCHANGED <<size, indexBuffer, lastWriteTime, indexVars,
                                written, panicked>>
            ELSE IF Len(w.data) < 8
            THEN \* data[8:] is out of range: run-time panic
                 /\ size' = size + w.n
                 /\ panicked' = TRUE
                 /\ ret' = Result("Write", Len(data), Panic, 0, NoRecord)
                 /\ UNCHANGED <<indexBuffer, lastWriteTime, indexVars, written>>
            ELSE /\ size' = size + w.n
                 /\ lastWriteTime' = IntLE(Bytes(w.data, 0, 8))
                 /\ indexBuffer' = e
                 /\ idxFd' = b.file
                 /\ idxWriter' = b.buf
                 /\ idxSize' = IndexWriteSize(idxSize, Nil)
                 /\ written' = Append(written, data)
                 /\ ret' = Result("Write", Len(data), Nil, w.n, NoRecord)
                 /\ UNCHANGED panicked
  /\ EndRun
  /\ UNCHANGED <<cursorVars, notLogVars>>

\* VersionOneIndexFile.Flush (src/log_index.go).
Flush ==
  /\ ~panicked
  /\ idxFd' = idxFd \o idxWriter
  /\ idxWriter' = <<>>
  /\ ret' = Result("Flush", 0, Nil, 0, NoRecord)
  /\ EndRun
  /\ UNCHANGED <<logVars, idxSize, cursorVars, ghostVars, panicked, notLogVars>>

(***************************************************************************)
(* VersionOneIndexFile.Slice and VersionOneIndexSlice.Get                  *)
(* (src/log_index.go).                                                     *)
(***************************************************************************)
NilSlice == [nil |-> TRUE, buffer |-> <<>>, size |-> 0]

\* The length of the buffer Slice allocates.
SliceBufLen(offset, limit, n) ==
  IF limit > MaximumIndexSlice THEN VersionOneIndexRecordSize * MaximumIndexSlice
  ELSE IF offset + limit > n THEN VersionOneIndexRecordSize * (offset + limit - n)
  ELSE VersionOneIndexRecordSize * limit

\* A variant of the argument check that lets any limit through.
SliceArgErrAnyLimit(offset, limit, n) ==
  IF offset > n \/ offset < 0 THEN ErrSliceOutOfBounds ELSE Nil

\* The argument check of Slice.
SliceArgErr(offset, limit, n) ==
  IF offset > n \/ offset < 0 THEN ErrSliceOutOfBounds
  ELSE IF limit < 1 THEN ErrSliceOutOfBounds
  ELSE Nil

\* Slice on an index of n records whose file holds the bytes file.
Slice(file, n, offset, limit) ==
  LET want == SliceBufLen(offset, limit, n)
      read == ReadAt(file, offset * VersionOneIndexRecordSize + VersionOneIndexHeaderSize, want)
  IN IF SliceArgErr(offset, limit, n) # Nil
     THEN [err |-> SliceArgErr(offset, limit, n), slice |-> NilSlice]
     ELSE IF Len(read) < want
     THEN [err |-> ErrReadIndex, slice |-> NilSlice]
     ELSE [err |-> Nil,
           slice |-> [nil |-> FALSE, buffer |-> read,
                      size |-> Len(read) \div VersionOneIndexRecordSize]]

\* The bounds check of VersionOneIndexSlice.Get.
GetErr(s, index) ==
  IF index > s.size \/ index < 0 THEN ErrSliceOutOfBounds ELSE Nil

\* VersionOneIndexRecord.Offset of the record Get(index) returns.
RecordOffset(s, index) == Int64At(s.buffer, 16 + index * VersionOneIndexRecordSize)

\* The arguments Slice is called with on the index itself.
SliceOffsets == 0..(MaxWrites + 1)
SliceLimits == 0..(MaximumIndexSlice + 1)

\* index.Slice(offset, limit).
IndexSlice(offset, limit) ==
  /\ sliceRet' = [offset |-> offset, limit |-> limit,
                  err |-> Slice(idxFd, idxSize, offset, limit).err,
                  slice |-> Slice(idxFd, idxSize, offset, limit).slice]
  /\ UNCHANGED <<logVars, indexVars, cursorVars, historyVars, ret, ghostVars, panicked>>
  /\ UNCHANGED <<walVars, syncVars, sink, auxVars>>

\* index.Write(record) on the index itself, with the record of slot
\* i.Size(): time, index, offset of a 24-byte record, ttl.
IndexWrite ==
  /\ idxSize < MaxWrites
  /\ \E now \in Clock :
       LET rec == LE(now, 8) \o LE(idxSize, 8)
                  \o LE(LogHeaderSize + VersionOneLogRecordHeaderSize * idxSize, 8)
                  \o LE(TimeToLive, 8)
           b == BufioWrite(idxFd, idxWriter, rec, IndexBufferSize)
       IN /\ idxFd' = b.file
          /\ idxWriter' = b.buf
          /\ idxSize' = IndexWriteSize(idxSize, Nil)
  /\ UNCHANGED <<logVars, cursorVars, historyVars, ret, ghostVars, panicked>>
  /\ UNCHANGED notLogVars

(***************************************************************************)
(* UnmarshalBasicLogRecord (src/log.go).                                   *)
(***************************************************************************)
\* copy(r.data, buffer[24:]) with r.data the nil slice of a fresh record.
UnmarshalData(buffer) ==
  Copy(<<>>, SubSeq(buffer, VersionOneLogRecordHeaderSize + 1, Len(buffer)))

\* A variant of the decoder that does not compare the declared size with
\* the length of the buffer.
UnmarshalUnchecked(buffer) ==
  IF Len(buffer) < VersionOneLogRecordHeaderSize
  THEN [err |-> ErrInvalidRecordSize, rec |-> NoRecord]
  ELSE [err |-> Nil,
        rec |-> [size |-> UintLE(Bytes(buffer, 0, 4)),
                 flags |-> UintLE(Bytes(buffer, 4, 4)),
                 nanos |-> IntLE(Bytes(buffer, 8, 8)),
                 index |-> UintLE(Bytes(buffer, 16, 8)),
                 data |-> UnmarshalData(buffer)]]

UnmarshalBasicLogRecord(buffer) ==
  IF Len(buffer) < VersionOneLogRecordHeaderSize
  THEN [err |-> ErrInvalidRecordSize, rec |-> NoRecord]
  ELSE IF UintLE(Bytes(buffer, 0, 4)) # Len(buffer) - 24
  THEN [err |-> ErrInvalidRecordSize, rec |-> NoRecord]
  ELSE [err |-> Nil,
        rec |-> [size |-> UintLE(Bytes(buffer, 0, 4)),
                 flags |-> UintLE(Bytes(buffer, 4, 4)),
                 nanos |-> IntLE(Bytes(buffer, 8, 8)),
                 index |-> UintLE(Bytes(buffer, 16, 8)),
                 data |-> UnmarshalData(buffer)]]

(***************************************************************************)
(* versionOneLogCursor (src/cursor.go).  The cursor reads the data file    *)
(* through a handle of its own and the index through the log's index.      *)
(***************************************************************************)
\* len(c.recordBuffer)
RecordBufferLen == MaxRecordSize + VersionOneLogRecordHeaderSize

\* allocateSlice(offset): [err, slice, sliceOffset, position].
AllocateSlice(offset, s, so, pos) ==
  LET r == Slice(idxFd, idxSize, offset, MaximumIndexSlice)
  IN IF r.err # Nil
     THEN [err |-> r.err, slice |-> s, sliceOffset |-> so, position |-> pos]
     ELSE [err |-> Nil, slice |-> r.slice, sliceOffset |-> 0, position |-> offset + 1]

\* The test Next makes before it refills the slice.
SliceExhausted(so, s) == so > s.size

\* The part of Next that reads the record at offset off of the data file.
ReadRecordFrom(file, off) ==
  LET header == ReadAt(file, off, VersionOneLogRecordHeaderSize)
      n == IntLE(Bytes(header, 0, 4))
      data == ReadAt(file, off + VersionOneLogRecordHeaderSize, n)
  IN IF Len(header) # VersionOneLogRecordHeaderSize
     THEN [err |-> ErrReadLogRecord, rec |-> NoRecord]
     ELSE IF n > RecordBufferLen
     THEN [err |-> ErrInvalidRecordSize, rec |-> NoRecord]
     ELSE IF n < 0 \/ VersionOneLogRecordHeaderSize + n > RecordBufferLen
     THEN \* c.recordBuffer[24:24+size] is out of range: run-time panic
          [err |-> Panic, rec |-> NoRecord]
     ELSE IF Len(data) # n
     THEN [err |-> ErrReadLogRecord, rec |-> NoRecord]
     ELSE UnmarshalBasicLogRecord(header \o data)

\* The same on the data file of the log.
ReadRecord(off) == ReadRecordFrom(fd, off)

\* Next on a cursor (s, so, pos): [err, rec, slice, sliceOffset, position].
CursorNext(s, so, pos) ==
  LET a == IF SliceExhausted(so, s)
           THEN AllocateSlice(pos, s, so, pos)
           ELSE [err |-> Nil, slice |-> s, sliceOffset |-> so, position |-> pos]
      r == ReadRecord(RecordOffset(a.slice, a.sliceOffset))
  IN IF a.err # Nil
     THEN [err |-> a.err, rec |-> NoRecord, slice |-> s, sliceOffset |-> so,
           position |-> pos]
     ELSE IF GetErr(a.slice, a.sliceOffset) # Nil
     THEN [err |-> GetErr(a.slice, a.sliceOffset), rec |-> NoRecord,
           slice |-> a.slice, sliceOffset |-> a.sliceOffset, position |-> a.position]
     ELSE [err |-> r.err, rec |-> r.rec, slice |-> a.slice,
           sliceOffset |-> a.sliceOffset + 1, position |-> a.position + 1]

Seek(offset) ==
  /\ ~panicked
  /\ seekBase' = offset
  /\ expect' = offset
  /\ LET a == AllocateSlice(offset, slice, sliceOffset, position)
         r == CursorNext(a.slice, a.sliceOffset, a.position)
     IN IF a.err # Nil
        THEN /\ ret' = Result("Seek", offset, a.err, 0, NoRecord)
             /\ UNCHANGED <<slice, sliceOffset, position, panicked>>
        ELSE /\ ret' = Result("Seek", offset, r.err, 0, r.rec)
             /\ slice' = r.slice
             /\ sliceOffset' = r.sliceOffset
             /\ position' = r.position
             /\ panicked' = (r.err = Panic)
  /\ UNCHANGED <<logVars, indexVars, ghostVars, notLogVars>>

\* Whether the last call was a cursor call that returned a record.
CursorReturned == ret.op \in {"Seek", "Next"} /\ ret.err = Nil

Next ==
  /\ ~panicked
  /\ expect' = IF CursorReturned /\ expect >= 0 THEN expect + 1 ELSE -1
  /\ UNCHANGED seekBase
  /\ IF slice.nil
     THEN \* c.slice.Size() on a nil interface: run-time panic
          /\ ret' = Result("Next", 0, Panic, 0, NoRecord)
          /\ panicked' = TRUE
          /\ UNCHANGED <<slice, sliceOffset, position>>
     ELSE LET r == CursorNext(slice, sliceOffset, position)
          IN /\ ret' = Result("Next", 0, r.err, 0, r.rec)
             /\ slice' = r.slice
             /\ sliceOffset' = r.sliceOffset
             /\ position' = r.position
             /\ panicked' = (r.err = Panic)
  /\ UNCHANGED <<logVars, indexVars, ghostVars, notLogVars>>

(***************************************************************************)
(* versionOneLogFile.Cursor / Pipe and BasicLogRecord.MarshalBinary        *)
(* (src/log.go).                                                           *)
(***************************************************************************)
\* Cursor() returns the nil LogCursor.
Cursor == [nil |-> TRUE]

\* MarshalBinary: size, flags, timestamp, index, payload.
MarshalBinary(rec) ==
  LE(rec.size, 4) \o LE(rec.flags, 4) \o LE(rec.nanos, 8) \o LE(rec.index, 8) \o rec.data

PipeOffsets == 0..MaxWrites
PipeLimits == 1..MaximumIndexSlice

\* Pipe(offset, limit, writer).  cur.Close and cur.Seek on the nil cursor
\* are a run-time panic.  With a cursor, the loop goes on while err != nil:
\* a Seek that returns a record ends it before anything is written, a Seek
\* that returns an error is followed by record.Index() on the nil record.
Pipe(offset, limit) ==
  /\ ~panicked
  /\ IF Cursor.nil
     THEN /\ ret' = Result("Pipe", offset, Panic, 0, NoRecord)
          /\ panicked' = TRUE
          /\ UNCHANGED <<sink, cursorVars>>
     ELSE LET a == AllocateSlice(offset, slice, sliceOffset, position)
              r == CursorNext(a.slice, a.sliceOffset, a.position)
          IN IF a.err = Nil /\ r.err = Nil
             THEN /\ ret' = Result("Pipe", offset, Nil, 0, NoRecord)
                  /\ slice' = r.slice
                  /\ sliceOffset' = r.sliceOffset
                  /\ position' = r.position
                  /\ UNCHANGED <<sink, panicked>>
             ELSE /\ ret' = Result("Pipe", offset, Panic, 0, NoRecord)
                  /\ panicked' = TRUE
                  /\ UNCHANGED <<sink, cursorVars>>
  /\ EndRun
  /\ UNCHANGED <<logVars, indexVars, ghostVars>>
  /\ UNCHANGED <<walVars, syncVars, sliceRet, auxVars>>

(***************************************************************************)
(* package v1: Create (src/v1/log.go), VersionOneIndexFactory              *)
(* (src/v1/index.go), the file headers of package common.                  *)
(***************************************************************************)
\* common.WriteFileHeader: signature, version, flags, ttl in 16 bytes.
WriteFileHeader(sig) ==
  sig \o <<VersionOne>> \o LE(DefaultRecordFlags, 4) \o LE(TimeToLive, 8)

\* The size VersionOneIndexFactory gives an index whose file holds the bytes
\* file: its test reads the local variable size, still zero, and not the
\* size of the file, so the branch that reads the last record never runs.
FactorySize(file) ==
  LET local == 0
  IN IF local >= V1IndexHeaderSize + V1IndexRecordSize
     THEN UintLE(Bytes(file, Len(file) - V1IndexRecordSize + 8, 8))
     ELSE 0

\* The index file as VersionOneIndexFactory leaves it.
FactoryFile(file) ==
  LET local == 0
  IN IF Len(file) >= V1IndexHeaderSize
     THEN IF local >= V1IndexHeaderSize + V1IndexRecordSize
          THEN file
          ELSE SubSeq(file, 1, V1IndexHeaderSize)
     ELSE file \o WriteFileHeader(IndexFileSignature)

\* Create on a file pair holding the bytes log and idx: the fields of the
\* wal it returns.
Create(log, idx) ==
  [hash |-> idx,
   idxFd |-> FactoryFile(idx),
   idxSize |-> FactorySize(idx),
   logSize |-> Len(log),
   lastWriteTime |-> 0]

\* A new pair of files: the data file holds its header, the index is empty.
NewWal == Create(WriteFileHeader(LogFileSignature), <<>>)

\* No snapshot taken.
NoSnapshot == [taken |-> FALSE, again |-> FALSE, time |-> 0, size |-> 0, hash |-> <<>>, bytes |-> <<>>]

InitWal ==
  /\ wLog = WriteFileHeader(LogFileSignature)
  /\ wLogSize = NewWal.logSize
  /\ wLastWriteTime = NewWal.lastWriteTime
  /\ wHash = NewWal.hash
  /\ wSafe = TRUE
  /\ wIdxFd = NewWal.idxFd
  /\ wIdxBuf = <<>>
  /\ wIdxSize = NewWal.idxSize
  /\ wIdxErr = Nil
  /\ wIdxClosed = FALSE
  /\ wRet = NoCall
  /\ wCount = 0
  /\ wCalls = 0
  /\ wSessions = 0
  /\ wSnap = NoSnapshot

(***************************************************************************)
(* wal.Write / wal.Close (src/v1/log.go) and the writers below them.       *)
(***************************************************************************)
\* The record NewLogRecordEncoder assembles: size, flags, timestamp in a
\* 16-byte header, then the payload.
EncodeLogRecord(now, data) ==
  LE(Len(data), 4) \o LE(DefaultRecordFlags, 4) \o LE(now, 8) \o data

\* mmapWriter.Write for data that fits the current block: [n, err].
MmapWrite(safe, data) ==
  IF ~safe THEN [n |-> 0, err |-> ErrUnsafeOperation]
  ELSE [n |-> Len(data), err |-> Nil]

\* The closure NewLogRecordEncoder returns: [n, err, out].
LogRecordEncoder(maxSize, safe, now, data) ==
  IF Len(data) > maxSize
  THEN [n |-> 0, err |-> ErrRecordTooLarge, out |-> <<>>]
  ELSE [n |-> MmapWrite(safe, EncodeLogRecord(now, data)).n,
        err |-> MmapWrite(safe, EncodeLogRecord(now, data)).err,
        out |-> IF safe THEN EncodeLogRecord(now, data) ELSE <<>>]

\* The 24 bytes NewIndexRecordEncoder writes for NewIndexRecord(nanos,
\* offset, index): time, index, offset.
EncodeIndexRecord(nanos, offset, index) ==
  LE(nanos, 8) \o LE(index, 8) \o LE(offset, 8)

\* The offset wal.Write stores: w.logSize, read before w.logSize += n.
WalEntryOffset(logSize, n) == logSize

V1IndexBufferSize == IndexBufferRecords * V1IndexRecordSize

\* bufio.Writer.Write of rec below the index: [file, buf, err].  A record
\* that does not fit makes the writer flush first; a flush fails on a closed
\* file and whenever the operating system says so (ioOk is FALSE), and the
\* error stays in the writer.
V1BufioWrite(file, buf, err, closed, rec, ioOk) ==
  IF err # Nil THEN [file |-> file, buf |-> buf, err |-> err]
  ELSE IF Len(buf) + Len(rec) <= V1IndexBufferSize
  THEN [file |-> file, buf |-> buf \o rec, err |-> Nil]
  ELSE IF closed THEN [file |-> file, buf |-> buf, err |-> ErrFileClosed]
  ELSE IF ~ioOk THEN [file |-> file, buf |-> buf, err |-> ErrIO]
  ELSE [file |-> file \o buf, buf |-> rec, err |-> Nil]

\* A variant that counts the record before looking at the error.
V1IndexWriteSizeAlways(n, err) == n + 1

\* VersionOneIndexFile.Write (src/v1/index.go): the size after a write that
\* returned err.
V1IndexWriteSize(n, err) == IF err # Nil THEN n ELSE n + 1

WalWrite(data) ==
  /\ wCalls < MaxWrites
  /\ \E now \in Clock, ioOk \in BOOLEAN :
       LET e == LogRecordEncoder(V1EncoderMaxSize, wSafe, now, data)
           rec == EncodeIndexRecord(now, WalEntryOffset(wLogSize, e.n), wIdxSize)
           i == V1BufioWrite(wIdxFd, wIdxBuf, wIdxErr, wIdxClosed, rec, ioOk)
       IN
       /\ wCalls' = wCalls + 1
       /\ wLog' = wLog \o e.out
       /\ IF e.err # Nil
          THEN /\ wRet' = Result("Write", Len(data), e.err, e.n, NoRecord)
               /\ UNCHANGED <<wLogSize, wLastWriteTime, wHash, wIdxFd, wIdxBuf,
                              wIdxSize, wIdxErr, wCount>>
          ELSE /\ wIdxFd' = i.file
               /\ wIdxBuf' = i.buf
               /\ wIdxErr' = i.err
               /\ wIdxSize' = V1IndexWriteSize(wIdxSize, i.err)
               /\ wRet' = Result("Write", Len(data), i.err, e.n, NoRecord)
               /\ IF i.err # Nil
                  THEN UNCHANGED <<wLogSize, wLastWriteTime, wHash, wCount>>
                  ELSE /\ wLogSize' = wLogSize + e.n
                       /\ wLastWriteTime' = now
                       /\ wHash' = wHash \o rec
                       /\ wCount' = wCount + 1
  /\ wSnap' = NoSnapshot
  /\ UNCHANGED <<wSafe, wIdxClosed, wSessions>>
  /\ UNCHANGED notWalVars

\* wal.Close: the log writer, then the index; bufferedWriter.Close flushes
\* without looking at the error and closes the file.
WalClose ==
  /\ wSafe' = FALSE
  /\ wIdxClosed' = TRUE
  /\ \E ioOk \in BOOLEAN :
       IF wIdxErr = Nil /\ ~wIdxClosed /\ ioOk
       THEN wIdxFd' = wIdxFd \o wIdxBuf /\ wIdxBuf' = <<>> /\ UNCHANGED wIdxErr
       ELSE /\ UNCHANGED <<wIdxFd, wIdxBuf>>
            /\ wIdxErr' = IF wIdxErr # Nil THEN wIdxErr
                          ELSE IF wIdxBuf = <<>> THEN Nil
                          ELSE IF wIdxClosed THEN ErrFileClosed ELSE ErrIO
  /\ wRet' = Result("Close", 0, IF wIdxClosed THEN ErrFileClosed ELSE Nil, 0, NoRecord)
  /\ UNCHANGED <<wLog, wLogSize, wLastWriteTime, wHash, wIdxSize, wCount,
                 wCalls, wSessions, wSnap>>
  /\ UNCHANGED notWalVars

\* Create called again on the file pair of a closed log.
WalCreate ==
  /\ wIdxClosed
  /\ wSessions < MaxSessions
  /\ LET c == Create(wLog, wIdxFd)
     IN /\ wHash' = c.hash
        /\ wIdxFd' = c.idxFd
        /\ wIdxSize' = c.idxSize
        /\ wLogSize' = c.logSize
        /\ wLastWriteTime' = c.lastWriteTime
  /\ wSafe' = TRUE
  /\ wIdxBuf' = <<>>
  /\ wIdxErr' = Nil
  /\ wIdxClosed' = FALSE
  /\ wRet' = Result("Create", 0, Nil, 0, NoRecord)
  /\ wCount' = 0
  /\ wSessions' = wSessions + 1
  /\ wSnap' = NoSnapshot
  /\ UNCHANGED <<wLog, wCalls>>
  /\ UNCHANGED notWalVars

\* wal.Snapshot: last write time, size of the log, digest.
WalSnapshot == [time |-> wLastWriteTime, size |-> wLogSize, hash |-> wHash]

\* BasicSnapshot.MarshalBinary (src/snapshot.go): time, size, hash, 8 bytes
\* each; the 8 bytes of the digest are represented by the bytes it was fed.
SnapshotBytes(snap) == LE(snap.time, 8) \o LE(snap.size, 8) \o snap.hash

\* A variant of Snapshot whose Sum64 empties the digest.
WalSnapshotDraining ==
  /\ wSnap' = [taken |-> TRUE, again |-> wSnap.taken, time |-> WalSnapshot.time, size |-> WalSnapshot.size,
               hash |-> WalSnapshot.hash, bytes |-> SnapshotBytes(WalSnapshot)]
  /\ wRet' = Result("Snapshot", 0, Nil, 0, NoRecord)
  /\ wHash' = <<>>
  /\ UNCHANGED <<wLog, wLogSize, wLastWriteTime, wSafe, wIdxFd, wIdxBuf,
                 wIdxSize, wIdxErr, wIdxClosed, wCount, wCalls, wSessions>>
  /\ UNCHANGED notWalVars

\* wal.Snapshot()
WalSnapshotCall ==
  /\ wSnap' = [taken |-> TRUE, again |-> wSnap.taken, time |-> WalSnapshot.time, size |-> WalSnapshot.size,
               hash |-> WalSnapshot.hash, bytes |-> SnapshotBytes(WalSnapshot)]
  /\ wRet' = Result("Snapshot", 0, Nil, 0, NoRecord)
  /\ UNCHANGED <<wLog, wLogSize, wLastWriteTime, wHash, wSafe, wIdxFd, wIdxBuf,
                 wIdxSize, wIdxErr, wIdxClosed, wCount, wCalls, wSessions>>
  /\ UNCHANGED notWalVars

\* What a write torn by a crash can leave at the end of the data file:
\* nothing, or the first bytes of a record.
TornWrites == {<<>>, <<7, 7, 7>>}

\* The process is killed without Close (the records still in the buffered
\* writer of the index are lost, a torn write may stay in the data file) and
\* Create is called on the files it left.  wal.Recover does nothing and
\* nothing calls it.
WalCrashCreate ==
  /\ ~wIdxClosed
  /\ wSessions < MaxSessions
  /\ \E torn \in TornWrites :
       LET c == Create(wLog \o torn, wIdxFd)
       IN /\ wLog' = wLog \o torn
          /\ wHash' = c.hash
          /\ wIdxFd' = c.idxFd
          /\ wIdxSize' = c.idxSize
          /\ wLogSize' = c.logSize
          /\ wLastWriteTime' = c.lastWriteTime
  /\ wSafe' = TRUE
  /\ wIdxBuf' = <<>>
  /\ wIdxErr' = Nil
  /\ wIdxClosed' = FALSE
  /\ wRet' = Result("CrashCreate", 0, Nil, 0, NoRecord)
  /\ wCount' = 0
  /\ wSessions' = wSessions + 1
  /\ wSnap' = NoSnapshot
  /\ UNCHANGED wCalls
  /\ UNCHANGED notWalVars

(***************************************************************************)
(* m3.SyncOnWrite (m3/file.go); atomicWriteCloser of src/writers.go is the *)
(* same code.  The operating system decides whether file.Write and         *)
(* file.Sync succeed.                                                      *)
(***************************************************************************)
SyncPayloads == {<<1>>, <<2, 3>>}

InitSync ==
  /\ sFile = <<>>
  /\ sDurable = <<>>
  /\ sClosed = FALSE
  /\ sRet = [op |-> "none", n |-> 0, err |-> Nil]
  /\ sFault = "none"

\* The error of file.Write / file.Sync on a file.
FileOpErr(closed, ok, err) == IF closed THEN ErrFileClosed ELSE IF ok THEN Nil ELSE err

\* A variant that reports the write as done whatever Sync says.
SyncOnWriteUnchecked(data, closed, writeOk, syncOk) ==
  IF FileOpErr(closed, writeOk, ErrIO) # Nil
  THEN [n |-> 0, err |-> FileOpErr(closed, writeOk, ErrIO)]
  ELSE [n |-> Len(data), err |-> Nil]

\* syncOnWrite.Write: what it returns.
SyncOnWrite(data, closed, writeOk, syncOk) ==
  IF FileOpErr(closed, writeOk, ErrIO) # Nil
  THEN [n |-> 0, err |-> FileOpErr(closed, writeOk, ErrIO)]
  ELSE [n |-> Len(data), err |-> FileOpErr(closed, syncOk, ErrSync)]

\* writer.Write(data) on the SyncOnWrite writer.  A write the operating
\* system fails may have put a prefix of the data in the file; a failed
\* fsync leaves stable storage as it was.
SyncWrite(data) ==
  /\ Len(sFile) + Len(data) <= MaxSyncBytes
  /\ \E writeOk \in BOOLEAN, syncOk \in BOOLEAN, short \in 0..(Len(data) - 1) :
       LET r == SyncOnWrite(data, sClosed, writeOk, syncOk)
       IN /\ sRet' = [op |-> "Write", n |-> r.n, err |-> r.err]
          /\ sFault' = IF sClosed THEN "closed"
                        ELSE IF ~writeOk THEN "write"
                        ELSE IF ~syncOk THEN "sync" ELSE "none"
          /\ sFile' = IF sClosed THEN sFile
                       ELSE IF ~writeOk THEN sFile \o SubSeq(data, 1, short)
                       ELSE sFile \o data
          /\ sDurable' = IF sClosed \/ ~writeOk \/ ~syncOk THEN sDurable ELSE sFile'
  /\ UNCHANGED sClosed
  /\ UNCHANGED notSyncVars

\* syncOnWrite.Close: Sync, and Close when the Sync succeeded.
SyncClose ==
  /\ \E syncOk \in BOOLEAN :
       /\ sRet' = [op |-> "Close", n |-> 0, err |-> FileOpErr(sClosed, syncOk, ErrSync)]
       /\ sFault' = IF sClosed THEN "closed" ELSE IF ~syncOk THEN "sync" ELSE "none"
       /\ sClosed' = (sClosed \/ syncOk)
       /\ sDurable' = IF ~sClosed /\ syncOk THEN sFile ELSE sDurable
  /\ UNCHANGED sFile
  /\ UNCHANGED notSyncVars

(***************************************************************************)
(* Create on the path of a data file (src/wal.go): openExisting,           *)
(* createNew, selectVersion.                                               *)
(***************************************************************************)
\* The files Create can find at the path: headers with a right or a wrong
\* signature, a known or an unknown version, some flags, with or without
\* bytes after them; files shorter than a header.
FileSignatures == {LogFileSignature, IndexFileSignature, <<76, 79, 88>>}
FileVersions == {0, VersionOne, 2}
ExistingFiles ==
  {sig \o <<v>> \o LE(f, 4) \o rest :
     sig \in FileSignatures, v \in FileVersions, f \in 0..2, rest \in {<<>>, <<9>>, <<9, 9>>}}
  \cup {<<>>, LogFileSignature}

InitCreate ==
  /\ cFile = <<>>
  /\ cRet = [op |-> "none", err |-> Nil, log |-> FALSE]

\* A variant of selectVersion that takes any version for version one.
SelectVersionAny(version) == [err |-> Nil, log |-> TRUE]

\* selectVersion: [err, log (whether a log is returned)].
SelectVersion(version) ==
  IF version = VersionOne THEN [err |-> Nil, log |-> TRUE]
  ELSE [err |-> ErrInvalidFileVersion, log |-> FALSE]

\* openExisting on a file of at least LogHeaderSize bytes.
OpenExisting(file) ==
  IF SubSeq(file, 1, 3) # LogFileSignature
  THEN [err |-> ErrInvalidFileSignature, log |-> FALSE]
  ELSE SelectVersion(file[4])

\* createNew: the header is appended to the file (O_APPEND), then
\* selectVersion looks at config.Version.
CreateNew(file, version) ==
  [file |-> file \o LogFileSignature \o <<version>> \o LE(DefaultRecordFlags, 4),
   err |-> SelectVersion(version).err,
   log |-> SelectVersion(version).log]

\* Create(filename, config) with config.Version = version.
CreateLog(version) ==
  /\ IF Len(cFile) >= LogHeaderSize
     THEN /\ cRet' = [op |-> "Create", err |-> OpenExisting(cFile).err,
                      log |-> OpenExisting(cFile).log]
          /\ UNCHANGED cFile
     ELSE /\ cRet' = [op |-> "Create", err |-> CreateNew(cFile, version).err,
                      log |-> CreateNew(cFile, version).log]
          /\ cFile' = CreateNew(cFile, version).file
  /\ UNCHANGED <<coreVars, codecVars, eRet,
               threadVars, appendVars, bufferedVars, bufioVars, recordVars, gRet, mmapVars>>

\* Another file is put at the path.
PutFile(file) ==
  /\ cFile' = file
  /\ cRet' = [op |-> "none", err |-> Nil, log |-> FALSE]
  /\ UNCHANGED <<coreVars, codecVars, eRet,
               threadVars, appendVars, bufferedVars, bufioVars, recordVars, gRet, mmapVars>>

(***************************************************************************)
(* The record codec used on its own: BasicLogRecord.MarshalBinary and      *)
(* UnmarshalBasicLogRecord (src/log.go).                                   *)
(***************************************************************************)
\* The records given to the encoder: size is the length of the payload.
CodecPayloads == {<<>>, <<5>>, <<5, 6>>, <<5, 6, 7>>}
CodecRecords ==
  {[size |-> Len(d), flags |-> f, nanos |-> t, index |-> i, data |-> d] :
     d \in CodecPayloads, f \in 0..1, t \in Clock, i \in 0..3}

\* Buffers that are not the encoding of a record: shorter than a header, or
\* with a size field that is not the number of bytes after the header.
BadBuffers ==
  {<<>>, Zeros(VersionOneLogRecordHeaderSize - 1),
   LE(1, 4) \o Zeros(VersionOneLogRecordHeaderSize - 4),
   LE(0, 4) \o Zeros(VersionOneLogRecordHeaderSize - 4) \o <<5>>,
   LE(3, 4) \o Zeros(VersionOneLogRecordHeaderSize - 4) \o <<5, 6>>}

InitCodec ==
  /\ kRec = NoRecord
  /\ kBuf = <<>>
  /\ kOut = [op |-> "none", src |-> "none", err |-> Nil, nil |-> TRUE, rec |-> NoRecord]

\* record.MarshalBinary()
Encode(rec) ==
  /\ kRec' = rec
  /\ kBuf' = MarshalBinary(rec)
  /\ kOut' = [op |-> "Encode", src |-> "Encode", err |-> Nil, nil |-> TRUE, rec |-> NoRecord]
  /\ UNCHANGED <<coreVars, createVars, eRet,
               threadVars, appendVars, bufferedVars, bufioVars, recordVars, gRet, mmapVars>>

\* The decoder is handed some other buffer.
TakeBuffer(buf) ==
  /\ kRec' = NoRecord
  /\ kBuf' = buf
  /\ kOut' = [op |-> "Buffer", src |-> "Buffer", err |-> Nil, nil |-> TRUE, rec |-> NoRecord]
  /\ UNCHANGED <<coreVars, createVars, eRet,
               threadVars, appendVars, bufferedVars, bufioVars, recordVars, gRet, mmapVars>>

\* UnmarshalBasicLogRecord(kBuf)
Decode ==
  /\ kOut' = [op |-> "Decode", src |-> kOut.src,
              err |-> UnmarshalBasicLogRecord(kBuf).err,
              nil |-> (UnmarshalBasicLogRecord(kBuf).err # Nil),
              rec |-> UnmarshalBasicLogRecord(kBuf).rec]
  /\ UNCHANGED <<kRec, kBuf>>
  /\ UNCHANGED <<coreVars, createVars, eRet,
               threadVars, appendVars, bufferedVars, bufioVars, recordVars, gRet, mmapVars>>

(***************************************************************************)
(* IsExpired of the index records: VersionOneIndexRecord                   *)
(* (src/log_index.go) and RawIndexRecord (src/v1/index.go).                *)
(***************************************************************************)
\* Times of records, of the clock, and times to live.
ExpiryTimes == 0..3
ExpiryNows == 0..6
ExpiryTTLs == -1..2

InitExpiry ==
  eRet = [op |-> "none", time |-> 0, ttl |-> 0, now |-> 0, expired |-> FALSE]

\* VersionOneIndexRecord.IsExpired for a record of the given time and ttl
\* when time.Now().UnixNano() is now.
IndexRecordIsExpired(time, ttl, now) == now > time + ttl

\* RawIndexRecord.IsExpired(now, ttl) for a record of the given time.
RawIndexRecordIsExpired(time, ttl, now) ==
  IF ttl <= 0 THEN FALSE ELSE now > time + ttl

IsExpired(time, ttl, now) ==
  /\ eRet' = [op |-> "IsExpired", time |-> time, ttl |-> ttl, now |-> now,
              expired |-> IndexRecordIsExpired(time, ttl, now)]
  /\ UNCHANGED <<coreVars, createVars, codecVars,
               threadVars, appendVars, bufferedVars, bufioVars, recordVars, gRet, mmapVars>>

V1IsExpired(time, ttl, now) ==
  /\ eRet' = [op |-> "v1.IsExpired", time |-> time, ttl |-> ttl, now |-> now,
              expired |-> RawIndexRecordIsExpired(time, ttl, now)]
  /\ UNCHANGED <<coreVars, createVars, codecVars,
               threadVars, appendVars, bufferedVars, bufioVars, recordVars, gRet, mmapVars>>

(***************************************************************************)
(* wal.Write (src/v1/log.go) called from several goroutines.  The wal has  *)
(* no mutex, so the statements of the calls interleave; a call is cut here *)
(* where it reads or writes a field of the wal: size := w.index.Size(),    *)
(* the write of the record, the write of the index record (which reads     *)
(* w.logSize), the update of w.logSize, w.lastWriteTime and the hash.      *)
(***************************************************************************)
Threads == {1, 2}
ThreadPayloads == {Payload(0), Payload(8)}
NoLocals == [data |-> <<>>, now |-> 0, size |-> 0, n |-> 0, rec |-> <<>>]

InitThreads ==
  /\ tPc = [t \in Threads |-> "idle"]
  /\ tLoc = [t \in Threads |-> NoLocals]

\* Everything the goroutines of wal.Write leave alone.
notThreadVars ==
  <<logVars, indexVars, cursorVars, historyVars, ret, ghostVars, panicked,
    syncVars, sliceRet, sink, createVars, codecVars, eRet, appendVars,
    bufferedVars, bufioVars, recordVars, gRet, mmapVars, wSafe, wIdxClosed, wSessions, wSnap>>

\* now := time.Now().UnixNano(); size := w.index.Size()
ThreadBegin(t, data) ==
  /\ tPc[t] = "idle"
  /\ wCalls < MaxWrites
  /\ \E now \in Clock :
       tLoc' = [tLoc EXCEPT ![t] = [data |-> data, now |-> now, size |-> wIdxSize,
                                    n |-> 0, rec |-> <<>>]]
  /\ tPc' = [tPc EXCEPT ![t] = "record"]
  /\ wCalls' = wCalls + 1
  /\ UNCHANGED <<wLog, wLogSize, wLastWriteTime, wHash, wIdxFd, wIdxBuf, wIdxSize,
                 wIdxErr, wRet, wCount>>
  /\ UNCHANGED notThreadVars

\* n, err := w.logRecordEncoder(size, w.flags, now, data)
ThreadRecord(t) ==
  /\ tPc[t] = "record"
  /\ LET e == LogRecordEncoder(V1EncoderMaxSize, wSafe, tLoc[t].now, tLoc[t].data)
     IN /\ wLog' = wLog \o e.out
        /\ IF e.err # Nil
           THEN /\ wRet' = Result("Write", Len(tLoc[t].data), e.err, e.n, NoRecord)
                /\ tPc' = [tPc EXCEPT ![t] = "idle"]
                /\ UNCHANGED tLoc
           ELSE /\ tLoc' = [tLoc EXCEPT ![t].n = e.n]
                /\ tPc' = [tPc EXCEPT ![t] = "index"]
                /\ UNCHANGED wRet
  /\ UNCHANGED <<wLogSize, wLastWriteTime, wHash, wIdxFd, wIdxBuf, wIdxSize,
                 wIdxErr, wCount, wCalls>>
  /\ UNCHANGED notThreadVars

\* indexRecord := common.NewIndexRecord(now, w.logSize, size);
\* _, err = w.indexRecordEncoder(indexRecord)
ThreadIndex(t) ==
  /\ tPc[t] = "index"
  /\ \E ioOk \in BOOLEAN :
       LET rec == EncodeIndexRecord(tLoc[t].now,
                                    WalEntryOffset(wLogSize, tLoc[t].n), tLoc[t].size)
           i == V1BufioWrite(wIdxFd, wIdxBuf, wIdxErr, wIdxClosed, rec, ioOk)
       IN /\ wIdxFd' = i.file
          /\ wIdxBuf' = i.buf
          /\ wIdxErr' = i.err
          /\ wIdxSize' = V1IndexWriteSize(wIdxSize, i.err)
          /\ IF i.err # Nil
             THEN /\ wRet' = Result("Write", Len(tLoc[t].data), i.err, tLoc[t].n, NoRecord)
                  /\ tPc' = [tPc EXCEPT ![t] = "idle"]
                  /\ UNCHANGED tLoc
             ELSE /\ tLoc' = [tLoc EXCEPT ![t].rec = rec]
                  /\ tPc' = [tPc EXCEPT ![t] = "update"]
                  /\ UNCHANGED wRet
  /\ UNCHANGED <<wLog, wLogSize, wLastWriteTime, wHash, wCount, wCalls>>
  /\ UNCHANGED notThreadVars

\* w.logSize += int64(n); w.lastWriteTime = now; w.hashWriter(indexRecord);
\* return n, nil
ThreadUpdate(t) ==
  /\ tPc[t] = "update"
  /\ wLogSize' = wLogSize + tLoc[t].n
  /\ wLastWriteTime' = tLoc[t].now
  /\ wHash' = wHash \o tLoc[t].rec
  /\ wCount' = wCount + 1
  /\ wRet' = Result("Write", Len(tLoc[t].data), Nil, tLoc[t].n, NoRecord)
  /\ tPc' = [tPc EXCEPT ![t] = "idle"]
  /\ UNCHANGED tLoc
  /\ UNCHANGED <<wLog, wIdxFd, wIdxBuf, wIdxSize, wIdxErr, wCalls>>
  /\ UNCHANGED notThreadVars

(***************************************************************************)
(* VersionOneIndexFile of src/cursor.go: Append and Flush called from       *)
(* several goroutines.  The methods have value receivers, so every call     *)
(* works on a copy of the struct: the copy shares the buffer, the writer,   *)
(* the file and the size with the index, and has a mutex of its own.        *)
(***************************************************************************)
AppendRecordSize == 24
MaxAppends == 3
AppendBufferSize == IndexBufferRecords * AppendRecordSize
\* The records handed to Append: time, index, offset.
AppendRecords ==
  {[time |-> 1, index |-> 0, offset |-> 8], [time |-> 2, index |-> 1, offset |-> 40]}
NoAppend == [pc |-> "idle", rec |-> [time |-> 0, index |-> 0, offset |-> 0], mutex |-> FALSE]

InitAppend ==
  /\ aIdx = [mutex |-> FALSE, buffer |-> Zeros(AppendRecordSize), writer |-> <<>>,
             fd |-> NewIndexHeader, size |-> 0]
  /\ aCall = [t \in Threads |-> NoAppend]
  /\ aDone = <<>>

notAppendVars ==
  <<coreVars, createVars, codecVars, eRet, threadVars, bufferedVars, bufioVars,
    recordVars, gRet, mmapVars>>

\* The call i.Append(record): the receiver is copied, its mutex included.
AppendCall(t, rec) ==
  /\ aCall[t].pc = "idle"
  /\ Len(aDone) + Cardinality({u \in Threads : aCall[u].pc # "idle"}) < MaxAppends
  /\ aCall' = [aCall EXCEPT ![t] = [pc |-> "lock", rec |-> rec, mutex |-> aIdx.mutex]]
  /\ UNCHANGED <<aIdx, aDone>>
  /\ UNCHANGED notAppendVars

\* i.mutex.Lock() on the copy.
AppendLock(t) ==
  /\ aCall[t].pc = "lock"
  /\ ~aCall[t].mutex
  /\ aCall' = [aCall EXCEPT ![t].mutex = TRUE, ![t].pc = "time"]
  /\ UNCHANGED <<aIdx, aDone>>
  /\ UNCHANGED notAppendVars

\* i.extbuf.PutInt64(i.buffer, 0, record.Time())
AppendPutTime(t) ==
  /\ aCall[t].pc = "time"
  /\ aIdx' = [aIdx EXCEPT !.buffer = Put(aIdx.buffer, 0, LE(aCall[t].rec.time, 8))]
  /\ aCall' = [aCall EXCEPT ![t].pc = "index"]
  /\ UNCHANGED aDone
  /\ UNCHANGED notAppendVars

\* i.extbuf.PutUint64(i.buffer, 8, record.Index())
AppendPutIndex(t) ==
  /\ aCall[t].pc = "index"
  /\ aIdx' = [aIdx EXCEPT !.buffer = Put(aIdx.buffer, 8, LE(aCall[t].rec.index, 8))]
  /\ aCall' = [aCall EXCEPT ![t].pc = "offset"]
  /\ UNCHANGED aDone
  /\ UNCHANGED notAppendVars

\* i.extbuf.PutInt64(i.buffer, 16, record.Offset())
AppendPutOffset(t) ==
  /\ aCall[t].pc = "offset"
  /\ aIdx' = [aIdx EXCEPT !.buffer = Put(aIdx.buffer, 16, LE(aCall[t].rec.offset, 8))]
  /\ aCall' = [aCall EXCEPT ![t].pc = "write"]
  /\ UNCHANGED aDone
  /\ UNCHANGED notAppendVars

\* i.writer.Write(i.buffer); i.incrementSize(); return written, nil (the
\* deferred Unlock releases the copy).
AppendWrite(t) ==
  /\ aCall[t].pc = "write"
  /\ LET b == BufioWrite(aIdx.fd, aIdx.writer, aIdx.buffer, AppendBufferSize)
     IN aIdx' = [aIdx EXCEPT !.fd = b.file, !.writer = b.buf, !.size = aIdx.size + 1]
  /\ aDone' = Append(aDone, aCall[t].rec)
  /\ aCall' = [aCall EXCEPT ![t] = NoAppend]
  /\ UNCHANGED notAppendVars

\* i.Flush(): i.writer.Flush(); i.fd.Sync().
AppendFlush ==
  /\ aIdx.writer # <<>>
  /\ aIdx' = [aIdx EXCEPT !.fd = aIdx.fd \o aIdx.writer, !.writer = <<>>]
  /\ UNCHANGED <<aCall, aDone>>
  /\ UNCHANGED notAppendVars

(***************************************************************************)
(* The buffered writer middleware: bufferedWriteCloser of                   *)
(* src/unnamed/part_002, which keeps its own buffer, and of src/writers.go, *)
(* which wraps a bufio.Writer.                                              *)
(***************************************************************************)
BufferSize == 3
MaxBufferedWrites == 4
BufferedPayloads == {<<1>>, <<2, 3>>, <<4, 5, 6>>, <<7, 8, 9, 10>>}
ErrBufferTooLarge == "buffer too large"
NoBufferedCall == [op |-> "none", arg |-> <<>>, n |-> 0, err |-> Nil]

\* NewBufferedWriter(size)(parent) of part_002: make([]byte, 0, size).
InitBuffered ==
  /\ bw = [size |-> BufferSize, offset |-> 0, buffer |-> Zeros(BufferSize),
           parent |-> <<>>, closed |-> FALSE]
  /\ bIn = <<>>
  /\ bRet = NoBufferedCall

notBufferedVars ==
  <<coreVars, createVars, codecVars, eRet, threadVars, appendVars, bufioVars,
    recordVars, gRet, mmapVars>>

\* bufferedWriteCloser.Write(data) of part_002 on the value b: [n, err,
\* offset (of the receiver, a copy), buffer (the array the copy shares),
\* out (the bytes handed to b.parent.Write)].
BufferedWriteCall(b, data) ==
  IF Len(data) > b.size
  THEN [n |-> 0, err |-> ErrBufferTooLarge, offset |-> b.offset, buffer |-> b.buffer,
        out |-> <<>>]
  ELSE IF Len(data) + b.offset > b.size
  THEN [n |-> b.offset, err |-> Nil, offset |-> 0, buffer |-> b.buffer,
        out |-> SubSeq(b.buffer, 1, b.offset)]
  ELSE [n |-> Len(data), err |-> Nil, offset |-> b.offset + Len(data),
        buffer |-> Copy(b.buffer, data), out |-> <<>>]

\* What a method with a value receiver leaves in the field offset of the
\* writer it was called on: the assignments went to the copy.
ValueReceiverOffset(old, new) == old

BufferedWrite(data) ==
  /\ ~bw.closed
  /\ Len(bIn) < MaxBufferedWrites
  /\ LET c == BufferedWriteCall(bw, data)
     IN /\ bw' = [bw EXCEPT !.offset = ValueReceiverOffset(bw.offset, c.offset),
                            !.buffer = c.buffer,
                            !.parent = bw.parent \o c.out]
        /\ bRet' = [op |-> "Write", arg |-> data, n |-> c.n, err |-> c.err]
        /\ bIn' = IF c.err = Nil THEN Append(bIn, data) ELSE bIn
  /\ UNCHANGED notBufferedVars

\* bufferedWriteCloser.Close of part_002.
BufferedClose ==
  /\ ~bw.closed
  /\ bw' = [bw EXCEPT !.parent = IF bw.offset > 0
                                 THEN bw.parent \o SubSeq(bw.buffer, 1, bw.offset)
                                 ELSE bw.parent,
                      !.closed = TRUE]
  /\ bRet' = [op |-> "Close", arg |-> <<>>, n |-> 0, err |-> Nil]
  /\ UNCHANGED bIn
  /\ UNCHANGED notBufferedVars

\* NewBufferedWriter(size)(parent) of src/writers.go:
\* bufio.NewWriterSize(writer, size).
InitBufio ==
  /\ qw = [size |-> BufferSize, buf |-> <<>>, parent |-> <<>>, closed |-> FALSE]
  /\ qIn = <<>>
  /\ qRet = NoBufferedCall

notBufioVars ==
  <<coreVars, createVars, codecVars, eRet, threadVars, appendVars, bufferedVars,
    recordVars, gRet, mmapVars>>

\* (*bufio.Writer).Write(p) on a writer of capacity cap holding buf above
\* parent: [buf, parent].  While p does not fit, an empty buffer hands p to
\* the parent as it is and a buffer with bytes in it is filled and flushed.
RECURSIVE BufioWriterWrite(_, _, _, _)
BufioWriterWrite(cap, buf, parent, p) ==
  IF Len(p) > cap - Len(buf)
  THEN IF buf = <<>>
       THEN [buf |-> <<>>, parent |-> parent \o p]
       ELSE BufioWriterWrite(cap, <<>>,
                             parent \o buf \o SubSeq(p, 1, cap - Len(buf)),
                             SubSeq(p, cap - Len(buf) + 1, Len(p)))
  ELSE [buf |-> buf \o p, parent |-> parent]

\* bufferedWriteCloser.Write of src/writers.go: return b.writer.Write(data).
BufferedWriteCloserWrite(data) ==
  /\ ~qw.closed
  /\ Len(qIn) < MaxBufferedWrites
  /\ LET w == BufioWriterWrite(qw.size, qw.buf, qw.parent, data)
     IN qw' = [qw EXCEPT !.buf = w.buf, !.parent = w.parent]
  /\ qRet' = [op |-> "Write", arg |-> data, n |-> Len(data), err |-> Nil]
  /\ qIn' = Append(qIn, data)
  /\ UNCHANGED notBufioVars

\* bufferedWriteCloser.Close of src/writers.go: b.writer.Flush();
\* b.parent.Close().
BufferedWriteCloserClose ==
  /\ ~qw.closed
  /\ qw' = [qw EXCEPT !.buf = <<>>, !.parent = qw.parent \o qw.buf, !.closed = TRUE]
  /\ qRet' = [op |-> "Close", arg |-> <<>>, n |-> 0, err |-> Nil]
  /\ UNCHANGED qIn
  /\ UNCHANGED notBufioVars

(***************************************************************************)
(* versionOneLogCursor.Next (src/cursor.go) reading a record whose header   *)
(* declares any size.                                                       *)
(***************************************************************************)
\* The sizes a header declares (-1 is 0xffffffff) and the number of bytes
\* that follow the header in the file.
DeclaredSizes ==
  {0, MaxRecordSize, MaxRecordSize + 1, RecordBufferLen, RecordBufferLen + 1, -1}
FollowingBytes == {0, 1, MaxRecordSize, MaxRecordSize + 1, RecordBufferLen}
RecordFiles ==
  {LE(n, 4) \o LE(DefaultRecordFlags, 4) \o LE(now, 8) \o LE(index, 8) \o Payload(len) :
     n \in DeclaredSizes, now \in Clock, index \in 0..1, len \in FollowingBytes}

InitRecord ==
  /\ rFile = <<>>
  /\ rRet = [read |-> FALSE, err |-> Nil, rec |-> NoRecord]

notRecordVars ==
  <<coreVars, createVars, codecVars, eRet, threadVars, appendVars, bufferedVars,
    bufioVars, gRet, mmapVars>>

\* A data file under the cursor.
TakeRecordFile(file) ==
  /\ rFile' = file
  /\ rRet' = [read |-> FALSE, err |-> Nil, rec |-> NoRecord]
  /\ UNCHANGED notRecordVars

\* Next on an index entry whose offset is 0.
ReadRecordFile ==
  /\ rFile # <<>>
  /\ ~rRet.read
  /\ rRet' = [read |-> TRUE, err |-> ReadRecordFrom(rFile, 0).err,
              rec |-> ReadRecordFrom(rFile, 0).rec]
  /\ UNCHANGED rFile
  /\ UNCHANGED notRecordVars

(***************************************************************************)
(* VersionOneIndexSlice.Get (src/log_index.go) on the slice index.Slice     *)
(* returned.                                                                *)
(***************************************************************************)
GetIndexes == -1..(MaximumIndexSlice + 1)

InitGet == gRet = [called |-> FALSE, k |-> 0, size |-> 0, err |-> Nil, loaded |-> 0]

\* s.Get(k): the error, and with it the number of bytes of the buffer from
\* which the record returned would read its fields.
SliceGet(k) ==
  /\ ~sliceRet.slice.nil
  /\ gRet' = [called |-> TRUE, k |-> k, size |-> sliceRet.slice.size,
              err |-> GetErr(sliceRet.slice, k),
              loaded |-> Len(sliceRet.slice.buffer)]
  /\ UNCHANGED <<coreVars, createVars, codecVars, eRet, threadVars, appendVars,
                 bufferedVars, bufioVars, recordVars, mmapVars>>

(***************************************************************************)
(* The memory-mapped appender of m3 (core.go): a window of blockSize bytes  *)
(* mapped onto the end of the file, moved forward when it is full.          *)
(***************************************************************************)
BlockSize == 4
MmapOffset == 2
MaxMmapWrites == 3
MmapPayloads == {<<>>, <<1>>, <<2, 3>>, <<4, 5, 6>>, <<7, 8, 9, 10, 11, 12>>}

\* (*os.File).Truncate(n): the file cut or filled with zeros to n bytes.
Truncate(file, n) ==
  IF n <= Len(file) THEN SubSeq(file, 1, n) ELSE file \o Zeros(n - Len(file))

\* createMap: the file grows to hold the block at fileOffset, which is
\* mapped, and fileOffset moves behind it.
CreateMap(m) ==
  [m EXCEPT !.file = Truncate(m.file, m.fileOffset + BlockSize),
            !.fileOffset = m.fileOffset + BlockSize]

\* advance: unmap, createMap, position = 0.
Advance(m) == [CreateMap(m) EXCEPT !.position = 0]

\* remaining()
Remaining(m) == BlockSize - m.position

\* copy(m.m[m.position:], bs) for bs that fits the rest of the block: the
\* bytes land in the file under the mapping.
MapCopy(m, bs) ==
  [m EXCEPT !.file = Put(m.file, m.fileOffset - BlockSize + m.position, bs)]

\* NewMemMapAppender(file, blockSize, offset) on a file of offset bytes.
NewMemMapAppender ==
  CreateMap([file |-> Truncate(Zeros(MmapOffset), MmapOffset + BlockSize),
             fileOffset |-> MmapOffset, position |-> 0, safe |-> TRUE,
             closed |-> FALSE, dead |-> FALSE])

InitMmap ==
  /\ mm = NewMemMapAppender
  /\ mIn = <<>>
  /\ mRet = NoBufferedCall

notMmapVars ==
  <<coreVars, createVars, codecVars, eRet, threadVars, appendVars, bufferedVars,
    bufioVars, recordVars, gRet>>

\* The loop of mmapWriter.Write: [m, n, err] from the writer m with done
\* bytes of data written (the local variable written).
RECURSIVE WriteLoop(_, _, _)
WriteLoop(m, data, done) ==
  IF done >= Len(data) THEN [m |-> m, n |-> done, err |-> Nil]
  ELSE IF Len(data) - done < Remaining(m)
  THEN [m |-> [MapCopy(m, SubSeq(data, done + 1, Len(data)))
                 EXCEPT !.position = m.position + Len(data)],
        n |-> Len(data), err |-> Nil]
  ELSE IF m.position > BlockSize
  THEN \* m.m[m.position:] is out of range: run-time panic
       [m |-> [m EXCEPT !.dead = TRUE], n |-> done, err |-> Panic]
  ELSE WriteLoop(Advance(MapCopy(m, SubSeq(data, done + 1, done + Remaining(m)))),
                 data, done + Remaining(m))

\* mmapWriter.Write(data): [m, n, err].
MmapWriterWrite(m, data) ==
  IF ~m.safe THEN [m |-> m, n |-> 0, err |-> ErrUnsafeOperation]
  ELSE IF Remaining(m) = 0 THEN WriteLoop(Advance(m), data, 0)
  ELSE WriteLoop(m, data, 0)

MmapAppend(data) ==
  /\ ~mm.dead
  /\ ~mm.closed
  /\ Len(mIn) < MaxMmapWrites
  /\ LET w == MmapWriterWrite(mm, data)
     IN /\ mm' = w.m
        /\ mRet' = [op |-> "Write", arg |-> data, n |-> w.n, err |-> w.err]
        /\ mIn' = IF w.err = Nil THEN Append(mIn, data) ELSE mIn
  /\ UNCHANGED notMmapVars

\* mmapWriter.Close: unmap, cut the file behind the last byte written,
\* close it.
MmapClose ==
  /\ ~mm.dead
  /\ ~mm.closed
  /\ mm' = [mm EXCEPT !.safe = FALSE,
                      !.file = Truncate(mm.file, mm.fileOffset - Remaining(mm)),
                      !.closed = TRUE]
  /\ mRet' = [op |-> "Close", arg |-> <<>>, n |-> 0, err |-> Nil]
  /\ UNCHANGED mIn
  /\ UNCHANGED notMmapVars

Init ==
  /\ InitLog /\ InitWal /\ InitSync /\ InitCreate /\ InitCodec /\ InitExpiry
  /\ InitThreads /\ InitAppend /\ InitBuffered /\ InitBufio /\ InitRecord /\ InitGet
  /\ InitMmap

Next0 ==
  \/ Open
  \/ Close
  \/ \E data \in Payloads : Write(data)
  \/ Flush
  \/ \E offset \in 0..MaxWrites : Seek(offset)
  \/ Next

Spec == Init /\ [][Next0]_vars

NextWal ==
  \/ \E data \in WalPayloads : WalWrite(data)
  \/ WalClose
  \/ WalCreate
  \/ WalCrashCreate

SpecWal == Init /\ [][NextWal]_vars

\* The log and Pipe.
NextPipe ==
  \/ Open
  \/ Close
  \/ \E data \in Payloads : Write(data)
  \/ Flush
  \/ \E offset \in PipeOffsets, limit \in PipeLimits : Pipe(offset, limit)

SpecPipe == Init /\ [][NextPipe]_vars

\* The index used on its own, as src/index_test.go does.
NextIndex ==
  \/ IndexWrite
  \/ Flush
  \/ \E offset \in SliceOffsets, limit \in SliceLimits : IndexSlice(offset, limit)

SpecIndex == Init /\ [][NextIndex]_vars

\* Create on whatever file is at the path.
NextCreate ==
  \/ \E file \in ExistingFiles : PutFile(file)
  \/ \E version \in FileVersions : CreateLog(version)

SpecCreate == Init /\ [][NextCreate]_vars

\* The record codec.
NextCodec ==
  \/ \E rec \in CodecRecords : Encode(rec)
  \/ \E buf \in BadBuffers : TakeBuffer(buf)
  \/ Decode

SpecCodec == Init /\ [][NextCodec]_vars

\* Expiry of index records.
NextExpiry ==
  \/ \E time \in ExpiryTimes, ttl \in ExpiryTTLs, now \in ExpiryNows : IsExpired(time, ttl, now)
  \/ \E time \in ExpiryTimes, ttl \in ExpiryTTLs, now \in ExpiryNows : V1IsExpired(time, ttl, now)

SpecExpiry == Init /\ [][NextExpiry]_vars

\* The v1 log with its snapshots.
NextSnapshot ==
  \/ \E data \in WalPayloads : WalWrite(data)
  \/ WalClose
  \/ WalSnapshotCall

SpecSnapshot == Init /\ [][NextSnapshot]_vars

\* Goroutines writing to the one v1 log.
NextThreads ==
  \/ \E t \in Threads, data \in ThreadPayloads : ThreadBegin(t, data)
  \/ \E t \in Threads : ThreadRecord(t)
  \/ \E t \in Threads : ThreadIndex(t)
  \/ \E t \in Threads : ThreadUpdate(t)

SpecThreads == Init /\ [][NextThreads]_vars

\* Goroutines appending to the one index.
NextAppend ==
  \/ \E t \in Threads, rec \in AppendRecords : AppendCall(t, rec)
  \/ \E t \in Threads : AppendLock(t)
  \/ \E t \in Threads : AppendPutTime(t)
  \/ \E t \in Threads : AppendPutIndex(t)
  \/ \E t \in Threads : AppendPutOffset(t)
  \/ \E t \in Threads : AppendWrite(t)
  \/ AppendFlush

SpecAppend == Init /\ [][NextAppend]_vars

\* The buffered writer of part_002.
NextBuffered ==
  \/ \E data \in BufferedPayloads : BufferedWrite(data)
  \/ BufferedClose

SpecBuffered == Init /\ [][NextBuffered]_vars

\* The buffered writer of src/writers.go.
NextBufio ==
  \/ \E data \in BufferedPayloads : BufferedWriteCloserWrite(data)
  \/ BufferedWriteCloserClose

SpecBufio == Init /\ [][NextBufio]_vars

\* The cursor reading one record.
NextRecord ==
  \/ \E file \in RecordFiles : TakeRecordFile(file)
  \/ ReadRecordFile

SpecRecord == Init /\ [][NextRecord]_vars

\* The index, its slices and Get on them.
NextGet ==
  \/ IndexWrite
  \/ Flush
  \/ \E offset \in SliceOffsets, limit \in SliceLimits : IndexSlice(offset, limit)
  \/ \E k \in GetIndexes : SliceGet(k)

SpecGet == Init /\ [][NextGet]_vars

\* The memory-mapped appender.
NextMmap ==
  \/ \E data \in MmapPayloads : MmapAppend(data)
  \/ MmapClose

SpecMmap == Init /\ [][NextMmap]_vars

NextSync ==
  \/ \E data \in SyncPayloads : SyncWrite(data)
  \/ SyncClose

SpecSync == Init /\ [][NextSync]_vars

(***************************************************************************)
(* Readings of the two index files, for the properties below.              *)
(***************************************************************************)
\* The index records written so far, flushed or still buffered.
IndexStream == SubSeq(idxFd, VersionOneIndexHeaderSize + 1, Len(idxFd)) \o idxWriter
EntryTime(k) == IntLE(Bytes(IndexStream, k * VersionOneIndexRecordSize, 8))
EntryIndex(k) == UintLE(Bytes(IndexStream, k * VersionOneIndexRecordSize + 8, 8))
EntryOffsetOf(k) == IntLE(Bytes(IndexStream, k * VersionOneIndexRecordSize + 16, 8))

WalIndexStream == SubSeq(wIdxFd, V1IndexHeaderSize + 1, Len(wIdxFd)) \o wIdxBuf

(***************************************************************************)
(* C1.  Reading record k < size() through a cursor, seek(k), returns the   *)
(* payload passed to the k-th successful write.  Stated for the calls that *)
(* return a record; the cursor returns records without their payload, so   *)
(* the statement is violated.                                              *)
(***************************************************************************)
C1_SeekReturnsPayload ==
  (ret.op = "Seek" /\ ret.err = Nil /\ ret.arg < Len(written))
    => ret.rec.data = written[ret.arg + 1]

(***************************************************************************)
(* C2.  Index entry 0 has the size of the data file header as its offset   *)
(* and each later entry the offset of the one before plus 24 plus the      *)
(* payload length of the record before: an offset is where the header of   *)
(* its record begins.  versionOneLogFile.Write stores the position after   *)
(* the record, so the statement is violated.                               *)
(***************************************************************************)
C2_OffsetsAreRecordStarts ==
  \A k \in 0..(Len(written) - 1) :
    EntryOffsetOf(k) =
      IF k = 0 THEN LogHeaderSize
      ELSE EntryOffsetOf(k - 1) + VersionOneLogRecordHeaderSize + Len(written[k])

(***************************************************************************)
(* C3.  The index entry at slot k carries index k.  The entries of         *)
(* versionOneLogFile all carry index 0, so the statement is violated.      *)
(***************************************************************************)
C3_EntryIndexIsSlot ==
  \A k \in 0..(idxSize - 1) : EntryIndex(k) = k
C5_WriteReturnsHeaderPlusPayload ==
  (wRet.op = "Write" /\ wRet.err = Nil) => wRet.n = 24 + wRet.arg

(***************************************************************************)
(* C6.  seek(i) followed by m calls of next() returns the record of index  *)
(* i + m when i + m < size().  Stated for the calls that return a record.  *)
(***************************************************************************)
C6_NextReturnsFollowingRecord ==
  (CursorReturned /\ expect >= 0 /\ expect < idxSize) => ret.rec.index = expect

(***************************************************************************)
(* C7.  seek(0) and then next() return n records without error on a log of *)
(* n records and an error after the last one; seek(i) with i >= size()     *)
(* fails with SliceOutOfBounds.                                            *)
(***************************************************************************)
C7_CursorEndsAtSize ==
  /\ (ret.op \in {"Seek", "Next"} /\ seekBase = 0 /\ expect >= 0) =>
        IF expect < idxSize THEN ret.err = Nil ELSE ret.err # Nil
  /\ (ret.op = "Seek" /\ ret.arg >= idxSize) => ret.err = ErrSliceOutOfBounds

(***************************************************************************)
(* C8.  A write of a payload longer than max_record_size returns           *)
(* RecordTooLarge and leaves size(), the data file, the index file and the *)
(* hash as they were; payloads of length 0 and of length max_record_size   *)
(* are accepted.                                                           *)
(***************************************************************************)
C8_TooLargeChangesNothing ==
  [][\A data \in Payloads :
       (Write(data) /\ state = OPEN /\ ~fdClosed) =>
         IF Len(data) > MaxRecordSize
         THEN /\ ret'.err = ErrRecordTooLarge
              /\ UNCHANGED <<size, fd, idxFd, idxWriter, idxSize, hash>>
         ELSE ret'.err = Nil]_vars

(***************************************************************************)
(* C9.  A write on a log that is not Open returns LogClosed and 0 bytes    *)
(* and leaves the data file, the index, the size and the hash as they      *)
(* were; every write after close() fails with LogClosed.  fdClosed holds   *)
(* exactly when close() has been called.                                   *)
(***************************************************************************)
C9_WriteOnClosedLog ==
  [][\A data \in Payloads :
       (Write(data) /\ (state # OPEN \/ fdClosed)) =>
         /\ ret'.err = ErrLogClosed
         /\ ret'.n = 0
         /\ UNCHANGED <<size, fd, idxFd, idxWriter, idxSize, hash>>]_vars

C11_OpenOnlyFromUnopened ==
  [][/\ (Open /\ state = CLOSED) => (ret'.err = ErrLogAlreadyOpen /\ state' = CLOSED)
     /\ state = CLOSED => state' = CLOSED]_vars

\* The bytes a data file holds for the payloads ws when every record has a
\* header of h bytes.
RECURSIVE RecordBytes(_, _)
RecordBytes(ws, h) ==
  IF ws = <<>> THEN 0 ELSE h + Len(Head(ws)) + RecordBytes(Tail(ws), h)

\* C12: after close() has returned without error the state is Closed, the
\* data file holds the bytes of every successfully written record and the
\* index file holds one entry per successful write, none of them left in the
\* buffer of the index writer.
C12_CloseFlushesEverything ==
  (ret.op = "Close" /\ ret.err = Nil) =>
    /\ state = CLOSED
    /\ Len(fd) = LogHeaderSize + RecordBytes(written, VersionOneLogRecordHeaderSize)
    /\ idxWriter = <<>>
    /\ Len(idxFd) = VersionOneIndexHeaderSize + VersionOneIndexRecordSize * Len(written)

\* The offset and the size field of the record index entry k of the v1 index
\* file points at.
WalEntryOffsetOf(k) == IntLE(Bytes(WalIndexStream, k * V1IndexRecordSize + 16, 8))
WalRecordSize(k) == UintLE(Bytes(wLog, WalEntryOffsetOf(k), 4))

\* The sum of 24 + record_k.size over the index entries k < n.
RECURSIVE WalIndexedBytes(_)
WalIndexedBytes(n) ==
  IF n = 0 THEN 0
  ELSE VersionOneLogRecordHeaderSize + WalRecordSize(n - 1) + WalIndexedBytes(n - 1)

\* C13: after a crash followed by opening the log again the log is a
\* consistent prefix: the data file holds its 16-byte header and exactly the
\* records the index refers to (trailing bytes are truncated), so that the
\* next write starts at the end of the last recovered record.
C13_RecoveryYieldsPrefix ==
  wRet.op = "CrashCreate" =>
    /\ wLogSize - V1LogHeaderSize = WalIndexedBytes(wIdxSize)
    /\ Len(wLog) = wLogSize

\* C14: a snapshot taken after the log was closed and created again on the
\* same file pair has the hash and the size of the snapshot taken before the
\* close.
C14_SnapshotSurvivesRestart ==
  [][WalCreate => /\ WalSnapshot'.hash = WalSnapshot.hash
                  /\ WalSnapshot'.size = WalSnapshot.size]_vars

\* C15: under SyncOnWrite a write that returns no error has put its data in
\* the file and the file on stable storage; a failed sync is returned by the
\* write that ran into it; a failed file write (a closed file included)
\* returns 0 bytes and the error.
C15_SyncOnWrite ==
  [][\A data \in SyncPayloads : SyncWrite(data) =>
       /\ sRet'.err = Nil =>
            (sFile' = sFile \o data /\ sDurable' = sFile' /\ sRet'.n = Len(data))
       /\ sFault' = "sync" => sRet'.err = ErrSync
       /\ sFault' \in {"write", "closed"} => (sRet'.n = 0 /\ sRet'.err # Nil)]_vars

\* A write ran into a failed sync after an earlier write had been synced.
C15_Witness ==
  /\ sRet.op = "Write"
  /\ sFault = "sync"
  /\ sRet.err = ErrSync
  /\ sDurable # <<>>
  /\ sFile # sDurable

\* The timestamp in the header of the record index entry k of the v1 index
\* points at.
WalRecordTime(k) == IntLE(Bytes(wLog, WalEntryOffsetOf(k) + 8, 8))

\* C16: record timestamps never decrease in append order, whatever the
\* system clock does between two writes.
C16_TimestampsNonDecreasing ==
  \A a, b \in 0..(Len(WalIndexStream) \div V1IndexRecordSize - 1) :
    a < b => WalRecordTime(a) <= WalRecordTime(b)

\* C17: on an index whose entries are all in the file, slice(offset, limit)
\* with offset < size and limit >= 1 succeeds and returns a slice of
\* min(limit, MAX_SLICE, size - offset) entries.
C17_SliceSizeIsClamped ==
  [][\A offset \in SliceOffsets, limit \in SliceLimits :
       (IndexSlice(offset, limit) /\ offset < idxSize /\ limit >= 1 /\ idxWriter = <<>>)
       => /\ sliceRet'.err = Nil
          /\ ~sliceRet'.slice.nil
          /\ sliceRet'.slice.size = Min(limit, Min(MaximumIndexSlice, idxSize - offset))]_vars

\* C18: slice(offset, limit) with offset > count or with limit < 1 fails with
\* SliceOutOfBounds, returns no slice and changes nothing in the index.
C18_SliceRejectsBadArguments ==
  [][\A offset \in SliceOffsets, limit \in SliceLimits :
       (IndexSlice(offset, limit) /\ (offset > idxSize \/ limit < 1))
       => /\ sliceRet'.err = ErrSliceOutOfBounds
          /\ sliceRet'.slice.nil
          /\ UNCHANGED indexVars]_vars

\* A slice was refused on an index that holds entries, all of them in the
\* file.
C18_Witness ==
  /\ sliceRet.offset > idxSize
  /\ sliceRet.limit >= 1
  /\ sliceRet.err = ErrSliceOutOfBounds
  /\ sliceRet.slice.nil
  /\ idxSize >= 2
  /\ idxWriter = <<>>

\* C19: slice(size, 1), the offset being the current number of entries
\* (slice(0, 1) on an empty index included), fails with SliceOutOfBounds and
\* returns no slice.
C19_SliceAtSizeIsOutOfBounds ==
  [][IndexSlice(idxSize, 1) =>
       (sliceRet'.err = ErrSliceOutOfBounds /\ sliceRet'.slice.nil)]_vars

\* Record k of the log as it was appended: the payload of the k-th
\* successful write under a header with its size, the flags, the timestamp
\* kept in index entry k, and the index k.
AppendedRecord(k) ==
  [size |-> Len(written[k + 1]), flags |-> DefaultRecordFlags, nanos |-> EntryTime(k),
   index |-> k, data |-> written[k + 1]]

\* The serialized records from, from + 1, ..., to - 1.
RECURSIVE Serialized(_, _)
Serialized(from, to) ==
  IF from >= to THEN <<>>
  ELSE MarshalBinary(AppendedRecord(from)) \o Serialized(from + 1, to)

\* C20: pipe(offset, limit, sink) writes to the sink the serialized bytes of
\* the records offset, offset + 1, ... up to but not including offset +
\* limit or the end of the log, in index order, and returns no error when
\* neither the serialization nor the sink fails.
C20_PipeWritesTheRecords ==
  [][\A offset \in PipeOffsets, limit \in PipeLimits :
       (Pipe(offset, limit) /\ state = OPEN /\ offset < Len(written))
       => /\ ret'.err = Nil
          /\ sink' = sink \o Serialized(offset, Min(offset + limit, Len(written)))]_vars

C22_CodecRoundTrip ==
  (kOut.op = "Decode" /\ kOut.src = "Encode") =>
    /\ kOut.err = Nil
    /\ kOut.rec.size = kRec.size
    /\ kOut.rec.flags = kRec.flags
    /\ kOut.rec.nanos = kRec.nanos
    /\ kOut.rec.index = kRec.index
    /\ kOut.rec.data = kRec.data

\* C23: the decoder fails with InvalidRecordSize and returns no record when
\* the buffer is shorter than the 24-byte header or when the size declared
\* in the header is not len(buffer) - 24.
C23_DecoderRejectsBadSizes ==
  (/\ kOut.op = "Decode"
   /\ \/ Len(kBuf) < VersionOneLogRecordHeaderSize
      \/ UintLE(Bytes(kBuf, 0, 4)) # Len(kBuf) - VersionOneLogRecordHeaderSize)
  => (kOut.err = ErrInvalidRecordSize /\ kOut.nil)

\* The decoder has refused a buffer that holds a whole header and fewer
\* payload bytes than the header declares.
C23_Witness ==
  /\ kOut.op = "Decode"
  /\ kOut.err = ErrInvalidRecordSize
  /\ kOut.nil
  /\ Len(kBuf) > VersionOneLogRecordHeaderSize
  /\ UintLE(Bytes(kBuf, 0, 4)) > Len(kBuf) - VersionOneLogRecordHeaderSize

\* C24: an index entry with ttl = 0 is never reported expired, whatever the
\* current time; with ttl > 0 it is reported expired exactly when
\* now > time + ttl.
C24_ZeroTTLNeverExpires ==
  (eRet.op # "none") =>
    /\ eRet.ttl = 0 => ~eRet.expired
    /\ eRet.ttl > 0 => (eRet.expired <=> eRet.now > eRet.time + eRet.ttl)

WalEntryIndexOf(k) == UintLE(Bytes(WalIndexStream, k * V1IndexRecordSize + 8, 8))
RECURSIVE WalRecordStart(_)
WalRecordStart(k) ==
  IF k = 0 THEN V1LogHeaderSize
  ELSE WalRecordStart(k - 1) + V1LogRecordHeaderSize
       + UintLE(Bytes(wLog, WalRecordStart(k - 1), 4))

\* C26: concurrent writes on one log are serialized: once the writers have
\* returned, the records have the indices 0, 1, 2, ..., the offset of every
\* index entry is the start of its own record, and there are as many
\* entries as successful writes.
C26_ConcurrentWritesSerialized ==
  (\A t \in Threads : tPc[t] = "idle" /\ wIdxErr = Nil) =>
    /\ Len(WalIndexStream) = V1IndexRecordSize * wCount
    /\ wIdxSize = wCount
    /\ \A k \in 0..(wCount - 1) :
         /\ WalEntryIndexOf(k) = k
         /\ WalEntryOffsetOf(k) = WalRecordStart(k)

\* C27: no torn read: an index entry that a reader gets through slice points
\* to a record that is completely readable from the data file, so a cursor
\* read of an index k < index.size() never ends in a short read of the
\* record (ErrReadLogRecord) when the entry it followed is one of the
\* entries of the cursor's slice.
C27_NoTornRead ==
  (/\ ret.op \in {"Seek", "Next"}
   /\ ~slice.nil
   /\ sliceOffset >= 1
   /\ sliceOffset <= slice.size) => ret.err # ErrReadLogRecord

\* C28: a write whose record reached the data file and whose index append
\* failed reports WriteLogRecord, and from then on the log refuses every
\* write: a write that finds the failure recorded returns an error and
\* adds nothing to the data file.
C28_IndexFailureStopsTheLog ==
  [][(wRet'.op = "Write" /\ wRet'.err # Nil) =>
       /\ Len(wLog') > Len(wLog) => wRet'.err = ErrWriteLogRecord
       /\ wIdxErr # Nil => wLog' = wLog]_vars

\* C29: a write whose record could not be written through the data pipeline
\* returns the error of the pipeline and leaves the next index, the size,
\* the last write time and the rolling hash as they were, and appends no
\* index entry.
C29_FailedWriteChangesNothing ==
  [][(ret'.op = "Write" /\ ret'.err \notin {Nil, Panic, ErrLogClosed}) =>
       UNCHANGED <<idxSize, size, lastWriteTime, hash, idxFd, idxWriter>>]_vars

\* The time, index and offset (24 bytes) of the first k index entries, in
\* write order.
RECURSIVE EntryStream(_)
EntryStream(k) ==
  IF k = 0 THEN <<>>
  ELSE EntryStream(k - 1) \o Bytes(IndexStream, (k - 1) * VersionOneIndexRecordSize, 24)

\* C30: after k successful writes on a freshly created log the snapshot hash
\* is the digest of the k index entries (time, index, offset) in write
\* order, each fed once: the hash input is the index entry stream, not the
\* payloads.
C30_HashOfTheIndexStream ==
  (/\ ret.op = "Write"
   /\ ret.err = Nil
   /\ ~fdClosed
   /\ calls = Len(written)) => hash = EntryStream(idxSize)

\* The number of complete entries in the v1 index file.
WalCompleteEntries == (Len(wIdxFd) - V1IndexHeaderSize) \div V1IndexRecordSize

\* C31: opening an existing index file reconstructs the record count: an
\* index closed with N complete entries reopens with size() = N (0 for a
\* file that holds only the header), and reopening removes no complete entry
\* from the file.
C31_ReopenReconstructsCount ==
  [][WalCreate =>
       /\ wIdxSize' = WalCompleteEntries
       /\ SubSeq(wIdxFd', 1, V1IndexHeaderSize + WalCompleteEntries * V1IndexRecordSize)
            = SubSeq(wIdxFd, 1, V1IndexHeaderSize + WalCompleteEntries * V1IndexRecordSize)]_vars

\* C32: a slice includes the writes visible at call time: on an index of n
\* appended entries (1 <= n <= MAX_SLICE), flushed or not, slice(0, n)
\* succeeds and returns the n entries in the order they were appended.
C32_SliceSeesBufferedWrites ==
  [][(IndexSlice(0, idxSize) /\ idxSize >= 1 /\ idxSize <= MaximumIndexSlice) =>
       /\ sliceRet'.err = Nil
       /\ sliceRet'.slice.size = idxSize
       /\ sliceRet'.slice.buffer
            = SubSeq(IndexStream, 1, idxSize * VersionOneIndexRecordSize)]_vars

\* The entries of the index of src/cursor.go, on disk and buffered, and the
\* 24 bytes of an appended record.
AppendStream == SubSeq(aIdx.fd, Len(NewIndexHeader) + 1, Len(aIdx.fd)) \o aIdx.writer
AppendEntry(rec) == LE(rec.time, 8) \o LE(rec.index, 8) \o LE(rec.offset, 8)

\* C33: the index serializes its own writes: once the concurrent Append
\* calls have returned, every entry of the index holds the time, index and
\* offset of one appended record, and the count is the number of successful
\* appends.
C33_IndexSerializesAppends ==
  (\A t \in Threads : aCall[t].pc = "idle") =>
    /\ aIdx.size = Len(aDone)
    /\ Len(AppendStream) = AppendRecordSize * Len(aDone)
    /\ \A k \in 0..(Len(aDone) - 1) :
         \E j \in 1..Len(aDone) :
           Bytes(AppendStream, k * AppendRecordSize, AppendRecordSize) = AppendEntry(aDone[j])

\* The concatenation of the sequences of seqs, in order.
RECURSIVE Concat(_)
Concat(seqs) == IF seqs = <<>> THEN <<>> ELSE Head(seqs) \o Concat(Tail(seqs))

\* C34: the buffered writer preserves the byte stream: every write that
\* fits the buffer returns the length of its data, and after close the
\* wrapped writer has received the concatenation of all the written data in
\* write order.
C34_BufferedWriterKeepsTheStream ==
  /\ (bRet.op = "Write" /\ bRet.err = Nil) => bRet.n = Len(bRet.arg)
  /\ bw.closed => bw.parent = Concat(bIn)

\* C35: a write to the buffered writer whose data is larger than the buffer
\* fails with BufferTooLarge, hands nothing to the wrapped writer and leaves
\* the buffered bytes as they were.
C35_OversizeWriteIsRefused ==
  [][\A data \in BufferedPayloads :
       (BufferedWriteCloserWrite(data) /\ Len(data) > qw.size) =>
         /\ qRet'.err = ErrBufferTooLarge
         /\ qw'.parent = qw.parent
         /\ qw'.buf = qw.buf]_vars

\* The size the header of the record file declares, as an unsigned 32-bit
\* number.
DeclaredSize == UintLE(Bytes(rFile, 0, 4))

\* C36: a cursor read of a record whose header declares a size greater than
\* max_record_size returns InvalidRecordSize (it does not slice beyond its
\* buffer of max_record_size + 24 bytes, which is a run-time panic), for
\* sizes just above the maximum and for sizes that are negative as a signed
\* 32-bit integer as well.
C36_OversizeRecordIsInvalid ==
  (rRet.read /\ DeclaredSize > MaxRecordSize) => rRet.err = ErrInvalidRecordSize

\* C37: a cursor is not invalidated by a failed read: a call of next() that
\* returns an error leaves the cursor's position and its position in the
\* slice as they were, so that the next call reads the same record again.
C37_FailedNextKeepsThePosition ==
  [][(ret'.op = "Next" /\ ret'.err \notin {Nil, Panic}) =>
       UNCHANGED <<sliceOffset, position>>]_vars

\* C38: a slice of size s answers get(k) with an entry exactly when
\* 0 <= k < s and fails with SliceOutOfBounds for every other k, k = s
\* included, so that no entry comes from beyond the bytes loaded from the
\* index file.
C38_GetStaysInsideTheSlice ==
  gRet.called =>
    /\ (gRet.err = Nil) <=> (0 <= gRet.k /\ gRet.k < gRet.size)
    /\ gRet.err \in {Nil, ErrSliceOutOfBounds}
    /\ gRet.err = Nil => (gRet.k + 1) * VersionOneIndexRecordSize <= gRet.loaded

\* The position in the file behind the last byte the appender wrote.
MmapEnd == mm.fileOffset - Remaining(mm)

\* C39: memory-mapped appender: every write returns len(data), also when it
\* straddles block boundaries; the logical end of the writer is the initial
\* offset plus the number of bytes accepted; after Close the file has
\* exactly that length and holds, from the initial offset on, the
\* concatenation of the written data.
C39_MmapAppenderKeepsTheStream ==
  /\ (mRet.op = "Write" /\ mRet.err = Nil) => mRet.n = Len(mRet.arg)
  /\ mRet.err # Panic
  /\ ~mm.closed => MmapEnd = MmapOffset + Len(Concat(mIn))
  /\ mm.closed =>
       /\ Len(mm.file) = MmapOffset + Len(Concat(mIn))
       /\ SubSeq(mm.file, MmapOffset + 1, Len(mm.file)) = Concat(mIn)
====
